---------------------------- MODULE Spec2Model ----------------------------
(***************************************************************************)
(* Natural-language action routing of project-helios:                      *)
(*   backend/services/ai_action_handler.py   (pattern path, registry)      *)
(*   backend/services/task_service.py        (persistence of tasks)        *)
(*   backend/services/ollama_chat_service_v2.py (LLM function-call turn)   *)
(* Texts are TLA+ strings; a character is a string of length one.          *)
(***************************************************************************)
EXTENDS Integers, Sequences, FiniteSets, TLC

(***************************************************************************)
(* Text primitives (Python str / re semantics used by the handlers).       *)
(***************************************************************************)
Ch(s, i) == SubSeq(s, i, i)

UpperToLower ==
  ("A" :> "a") @@ ("B" :> "b") @@ ("C" :> "c") @@ ("D" :> "d") @@ ("E" :> "e") @@
  ("F" :> "f") @@ ("G" :> "g") @@ ("H" :> "h") @@ ("I" :> "i") @@ ("J" :> "j") @@
  ("K" :> "k") @@ ("L" :> "l") @@ ("M" :> "m") @@ ("N" :> "n") @@ ("O" :> "o") @@
  ("P" :> "p") @@ ("Q" :> "q") @@ ("R" :> "r") @@ ("S" :> "s") @@ ("T" :> "t") @@
  ("U" :> "u") @@ ("V" :> "v") @@ ("W" :> "w") @@ ("X" :> "x") @@ ("Y" :> "y") @@
  ("Z" :> "z")

LowerToUpper ==
  ("a" :> "A") @@ ("b" :> "B") @@ ("c" :> "C") @@ ("d" :> "D") @@ ("e" :> "E") @@
  ("f" :> "F") @@ ("g" :> "G") @@ ("h" :> "H") @@ ("i" :> "I") @@ ("j" :> "J") @@
  ("k" :> "K") @@ ("l" :> "L") @@ ("m" :> "M") @@ ("n" :> "N") @@ ("o" :> "O") @@
  ("p" :> "P") @@ ("q" :> "Q") @@ ("r" :> "R") @@ ("s" :> "S") @@ ("t" :> "T") @@
  ("u" :> "U") @@ ("v" :> "V") @@ ("w" :> "W") @@ ("x" :> "X") @@ ("y" :> "Y") @@
  ("z" :> "Z")

Digits == {"0", "1", "2", "3", "4", "5", "6", "7", "8", "9"}

\* \w of the re module (ASCII part)
IsWordChar(c) == c \in DOMAIN UpperToLower \/ c \in DOMAIN LowerToUpper
                 \/ c \in Digits \/ c = "_"

\* \s of the re module; the texts of the model hold no other white space
IsSpace(c) == c = " "

RECURSIVE Lower(_)
\* str.lower()
Lower(s) ==
  IF Len(s) = 0 THEN ""
  ELSE IF Len(s) = 1 THEN (IF s \in DOMAIN UpperToLower THEN UpperToLower[s] ELSE s)
  ELSE Lower(SubSeq(s, 1, Len(s) \div 2)) \o Lower(SubSeq(s, Len(s) \div 2 + 1, Len(s)))

RECURSIVE Upper(_)
\* str.upper()
Upper(s) ==
  IF Len(s) = 0 THEN ""
  ELSE IF Len(s) = 1 THEN (IF s \in DOMAIN LowerToUpper THEN LowerToUpper[s] ELSE s)
  ELSE Upper(SubSeq(s, 1, Len(s) \div 2)) \o Upper(SubSeq(s, Len(s) \div 2 + 1, Len(s)))

\* the literal p occurs in s at position i
MatchesAt(s, i, p) == /\ i >= 1
                      /\ i + Len(p) - 1 <= Len(s)
                      /\ SubSeq(s, i, i + Len(p) - 1) = p

\* p in s
Contains(s, p) == \E i \in 1..(Len(s) - Len(p) + 1) : MatchesAt(s, i, p)

\* number of consecutive characters of the class cls from position i on
RunLen(s, i, cls) ==
  LET stops == {j \in i..(Len(s) + 1) : j = Len(s) + 1 \/ Ch(s, j) \notin cls}
      stop  == CHOOSE j \in stops : \A k \in stops : j <= k
  IN  stop - i

\* str.strip(chars)
StripChars(s, cls) ==
  LET lead  == RunLen(s, 1, cls)
      keep  == {j \in 1..Len(s) : Ch(s, j) \notin cls}
      last  == IF keep = {} THEN 0 ELSE CHOOSE j \in keep : \A k \in keep : k <= j
  IN  IF keep = {} THEN "" ELSE SubSeq(s, lead + 1, last)

\* str.strip()
Strip(s) == StripChars(s, {" "})

\* str.replace(a, b) for a single character a
RECURSIVE ReplaceChar(_, _, _)
ReplaceChar(s, a, b) ==
  IF Len(s) = 0 THEN ""
  ELSE IF Len(s) = 1 THEN (IF s = a THEN b ELSE s)
  ELSE ReplaceChar(SubSeq(s, 1, Len(s) \div 2), a, b)
       \o ReplaceChar(SubSeq(s, Len(s) \div 2 + 1, Len(s)), a, b)

\* the least element of a non-empty set of integers
Min(S) == CHOOSE x \in S : \A y \in S : x <= y

(***************************************************************************)
(* Regular expressions of detect_and_execute_action.  A pattern of the     *)
(* form  <literal alternatives>[:\s]+(.+)  or  <literal alternatives>(.+)  *)
(* is a record: verb (the literal every alternative starts with), pre (the *)
(* alternatives of the literal part, written out) and sep (TRUE when the   *)
(* literal part is followed by [:\s]+).                                    *)
(***************************************************************************)
Articles == {"", "a ", "an ", "new "}            \* (?:a |an |new )?
Nouns    == {"task", "user"}                     \* (?:task|user)
ForMeOpt == {"", " for me"}                      \* (?: for me)?
TheOpt   == {"", "the "}                         \* (?:the )?
SepClass == {":", " "}                           \* [:\s]

\* <verb> (?:a |an |new )?(?:task|user)
HeadSet(verb) == {verb \o " " \o a \o n : a \in Articles, n \in Nouns}

\* <verb> (?:a |an |new )?(?:task|user)[:\s]+(.+)
DirectPattern(verb) == [verb |-> verb, pre |-> HeadSet(verb), sep |-> TRUE]

\* <verb> (?:a |an |new )?(?:task|user) (?:called|named) (.+)
NamedPattern(verb) ==
  [verb |-> verb,
   pre  |-> {h \o " " \o w \o " " : h \in HeadSet(verb), w \in {"called", "named"}},
   sep  |-> FALSE]

\* <verb> (?:a |an |new )?(?:task|user)(?: for me)? <by|with> (?:the )?name (.+)
NamePattern(verb, prep) ==
  [verb |-> verb,
   pre  |-> UNION {{h \o f \o " " \o prep \o " " \o t \o "name " : f \in ForMeOpt, t \in TheOpt}
                   : h \in HeadSet(verb)},
   sep  |-> FALSE]

create_patterns ==
  << DirectPattern("create"),
     DirectPattern("add"),
     [verb |-> "new", pre |-> {"new " \o n : n \in Nouns}, sep |-> TRUE],
     DirectPattern("make"),
     NamedPattern("create"),
     NamedPattern("add"),
     NamePattern("create", "by"),
     NamePattern("add", "by"),
     NamePattern("create", "with"),
     NamePattern("add", "with") >>

\* indexes of the "called/named", "by the name" and "with name" variants
SpecificCreatePatterns == 5..10

\* <verb> (?:the )?task[:\s]+(.+)
TheTaskPattern(verb) ==
  [verb |-> verb, pre |-> {verb \o " " \o t \o "task" : t \in TheOpt}, sep |-> TRUE]

delete_patterns ==
  << TheTaskPattern("delete"),
     TheTaskPattern("remove"),
     \* delete task (?:with )?id[:\s]+(.+)
     [verb |-> "delete", pre |-> {"delete task " \o w \o "id" : w \in {"", "with "}},
      sep |-> TRUE] >>

\* The position where the capture group (.+) starts when the pattern is
\* matched at position i of s, 0 when it does not match there.  [:\s]+ is
\* greedy and gives one character back when it runs to the end of the text.
CaptureStartAt(s, i, pat) ==
  LET ends == {i + Len(p) : p \in {p \in pat.pre : MatchesAt(s, i, p)}}
      caps == {IF ~pat.sep
                 THEN (IF e <= Len(s) THEN e ELSE 0)
                 ELSE LET r == RunLen(s, e, SepClass)
                      IN  IF r = 0 THEN 0
                          ELSE IF e + r <= Len(s) THEN e + r
                          ELSE IF r >= 2 THEN Len(s)
                          ELSE 0
               : e \in ends} \ {0}
  IN  IF caps = {} THEN 0 ELSE Min(caps)

\* re.search(pattern, s): the capture of the leftmost match, as
\* [found, start of group 1, group 1]
Search(s, pat) ==
  LET starts == {i \in 1..Len(s) : MatchesAt(s, i, pat.verb)
                                   /\ CaptureStartAt(s, i, pat) # 0}
  IN  IF starts = {} THEN [found |-> FALSE, start |-> 0, group1 |-> ""]
      ELSE [found |-> TRUE,
            start |-> CaptureStartAt(s, Min(starts), pat),
            group1 |-> SubSeq(s, CaptureStartAt(s, Min(starts), pat), Len(s))]

\* for pattern in patterns: match = re.search(pattern, s); if match: ...
\* the index of the first pattern of the list that matches, 0 when none does
FirstMatching(s, patterns) ==
  LET hits == {k \in 1..Len(patterns) : Search(s, patterns[k]).found}
  IN  IF hits = {} THEN 0 ELSE Min(hits)


(***************************************************************************)
(* status_patterns[0]:                                                     *)
(*  (?:mark|set|move|change) task (.+?) (?:as|to) (todo|in progress|done|blocked) *)
(***************************************************************************)
StatusVerbs == {"mark", "set", "move", "change"}
StatusWords == {"todo", "in progress", "done", "blocked"}
StatusTails == {[lit |-> " " \o w \o " " \o st, word |-> st]
                : w \in {"as", "to"}, st \in StatusWords}

\* the lazy group (.+?) started at position c ends at the first position e >= c
\* that is followed by " as|to <status-word>"
SearchStatus(s) ==
  LET capAt(i) == {i + Len(v) + 6 : v \in {v \in StatusVerbs : MatchesAt(s, i, v \o " task ")}}
      endsFrom(c) == {e \in c..Len(s) : \E t \in StatusTails : MatchesAt(s, e + 1, t.lit)}
      starts == {i \in 1..Len(s) : \E c \in capAt(i) : endsFrom(c) # {}}
  IN  IF starts = {} THEN [found |-> FALSE, group1 |-> "", group2 |-> ""]
      ELSE LET c == CHOOSE c \in capAt(Min(starts)) : TRUE
               e == Min(endsFrom(c))
               t == CHOOSE t \in StatusTails : MatchesAt(s, e + 1, t.lit)
           IN  [found |-> TRUE, group1 |-> SubSeq(s, c, e), group2 |-> t.word]

\* the other two status patterns: complete|finish (?:the )?task[:\s]+(.+)
status_patterns_rest == << TheTaskPattern("complete"), TheTaskPattern("finish") >>

(***************************************************************************)
(* Title cleanup of the create branch.                                     *)
(***************************************************************************)
\* ^(for me|with (?:the )?name|called|named|by (?:the )?name (?:of )?|titled)
\* with the optional parts written out, in the order the regex tries them
LeadingFillers ==
  << "for me", "with the name", "with name", "called", "named",
     "by the name of ", "by the name ", "by name of ", "by name ", "titled" >>

\* re.sub(r'^(...)\s*', '', title, flags=re.IGNORECASE)
StripLeadingFiller(title) ==
  LET low  == Lower(title)
      hits == {k \in 1..Len(LeadingFillers) : MatchesAt(low, 1, LeadingFillers[k])}
  IN  IF hits = {} THEN title
      ELSE LET n == Len(LeadingFillers[Min(hits)])
               r == RunLen(title, n + 1, {" "})
           IN  SubSeq(title, n + r + 1, Len(title))

\* length of the match of \s+for me\b at position i, 0 when there is none
ForMeLenAt(s, i) ==
  LET r == RunLen(s, i, {" "})
  IN  IF /\ r >= 1
         /\ MatchesAt(Lower(s), i + r, "for me")
         /\ (i + r + 6 > Len(s) \/ ~IsWordChar(Ch(s, i + r + 6)))
      THEN r + 6 ELSE 0

RECURSIVE RemoveForMeFrom(_, _)
\* the text from position i on with every match removed, scanning left to right
RemoveForMeFrom(s, i) ==
  LET hits == {j \in i..Len(s) : ForMeLenAt(s, j) > 0}
  IN  IF hits = {} THEN SubSeq(s, i, Len(s))
      ELSE SubSeq(s, i, Min(hits) - 1)
           \o RemoveForMeFrom(s, Min(hits) + ForMeLenAt(s, Min(hits)))

\* re.sub(r'\s+for me\b', '', title, flags=re.IGNORECASE)
RemoveForMe(title) == RemoveForMeFrom(title, 1)

PriorityKeywords == {"urgent", "critical", "high priority", "low priority"}

\* length of the match of \s*(urgent|critical|high priority|low priority)\s*
\* at position i, 0 when there is none
KeywordLenAt(s, i) ==
  LET r    == RunLen(s, i, {" "})
      hits == {k \in PriorityKeywords : MatchesAt(Lower(s), i + r, k)}
  IN  IF hits = {} THEN 0
      ELSE LET n == Len(CHOOSE k \in hits : TRUE)
           IN  r + n + RunLen(s, i + r + n, {" "})

RECURSIVE RemoveKeywordsFrom(_, _)
\* the text from position i on with every match removed, scanning left to right
RemoveKeywordsFrom(s, i) ==
  LET hits == {j \in i..Len(s) : KeywordLenAt(s, j) > 0}
  IN  IF hits = {} THEN SubSeq(s, i, Len(s))
      ELSE SubSeq(s, i, Min(hits) - 1)
           \o RemoveKeywordsFrom(s, Min(hits) + KeywordLenAt(s, Min(hits)))

\* re.sub(r'\s*(urgent|critical|high priority|low priority)\s*', '', title, ...)
RemoveKeywords(title) == RemoveKeywordsFrom(title, 1)

\* the priority sniffed from the title after the filler removal
infer_priority(title) ==
  LET low == Lower(title)
  IN  IF Contains(low, "urgent") \/ Contains(low, "critical") THEN "URGENT"
      ELSE IF Contains(low, "high priority") THEN "HIGH"
      ELSE IF Contains(low, "low priority") THEN "LOW"
      ELSE "MEDIUM"

TrimChars == {".", ",", ";", ":", "!", "?", " "}

\* the title after the two filler removals
Defillered(raw) == Strip(RemoveForMe(Strip(StripLeadingFiller(raw))))

\* the whole pipeline applied to the stripped capture group
clean_title(raw) == StripChars(Strip(RemoveKeywords(Defillered(raw))), TrimChars)


(***************************************************************************)
(* The keyword families that follow the three regex families, in the order *)
(* of the if statements.                                                   *)
(***************************************************************************)
PhraseFamilies ==
  << [handler |-> "list_tasks",
      phrases |-> {"list tasks", "show tasks", "what tasks", "my tasks", "all tasks"}],
     [handler |-> "list_integrations",
      phrases |-> {"list integrations", "show integrations", "what integrations"}],
     [handler |-> "get_stats",
      phrases |-> {"stats", "statistics", "summary", "overview"}],
     [handler |-> "predict_issues",
      phrases |-> {"predict", "forecast", "what will happen", "future issues",
                   "predict issues"}],
     [handler |-> "troubleshoot",
      phrases |-> {"troubleshoot", "debug", "diagnose", "problem with", "issue with",
                   "not working"}],
     [handler |-> "get_recommendations",
      phrases |-> {"recommend", "suggestions", "what should i", "advice", "guidance",
                   "daily briefing"}],
     [handler |-> "get_insights",
      phrases |-> {"insights", "analysis", "patterns", "trends", "analytics"}],
     [handler |-> "generate_dashboard",
      phrases |-> {"dashboard", "metrics", "kpi", "performance"}],
     [handler |-> "orchestrate",
      phrases |-> {"deploy", "orchestrate", "execute", "run workflow", "check status",
                   "restart service"}],
     [handler |-> "github_query",
      phrases |-> {"github", "repo", "repository", "pull request", "pr", "prs",
                   "commits", "branches", "issues", "create issue", "show commits",
                   "list repos", "show prs", "show issues"}] >>

\* any(phrase in query_lower for phrase in [...])
PhraseHit(ql, k) == \E ph \in PhraseFamilies[k].phrases : Contains(ql, ph)

NoIntent ==
  [family |-> "none", pattern |-> 0, start |-> 0, raw |-> "", title |-> "",
   priority |-> "", identifier |-> "", status |-> ""]

(***************************************************************************)
(* The matching stage of detect_and_execute_action: the family that is     *)
(* selected for a text and the parameters extracted for it.                *)
(***************************************************************************)
\* match with the deletion patterns tried before the creation patterns
match_delete_first(query) ==
  LET ql == Lower(query)
      ci == FirstMatching(ql, create_patterns)
      di == FirstMatching(ql, delete_patterns)
      s0 == SearchStatus(ql)
      si == FirstMatching(ql, status_patterns_rest)
      ph == {k \in 1..Len(PhraseFamilies) : PhraseHit(ql, k)}
  IN  IF di # 0 THEN
        [NoIntent EXCEPT !.family = "delete", !.pattern = di,
                         !.identifier = Strip(Search(ql, delete_patterns[di]).group1)]
      ELSE IF ci # 0 THEN
        LET m   == Search(ql, create_patterns[ci])
            raw == Strip(m.group1)
        IN  [NoIntent EXCEPT !.family = "create", !.pattern = ci, !.start = m.start,
                             !.raw = raw,
                             !.priority = infer_priority(Defillered(raw)),
                             !.title = clean_title(raw)]
      ELSE IF s0.found THEN
        [NoIntent EXCEPT !.family = "status", !.pattern = 1,
                         !.identifier = Strip(s0.group1),
                         !.status = ReplaceChar(Upper(Strip(s0.group2)), " ", "_")]
      ELSE IF si # 0 THEN
        [NoIntent EXCEPT !.family = "status", !.pattern = si + 1,
                         !.identifier = Strip(Search(ql, status_patterns_rest[si]).group1),
                         !.status = "DONE"]
      ELSE IF ph # {} THEN
        [NoIntent EXCEPT !.family = PhraseFamilies[Min(ph)].handler]
      ELSE NoIntent

match(query) ==
  LET ql == Lower(query)
      ci == FirstMatching(ql, create_patterns)
      di == FirstMatching(ql, delete_patterns)
      s0 == SearchStatus(ql)
      si == FirstMatching(ql, status_patterns_rest)
      ph == {k \in 1..Len(PhraseFamilies) : PhraseHit(ql, k)}
  IN  IF ci # 0 THEN
        LET m   == Search(ql, create_patterns[ci])
            raw == Strip(m.group1)
        IN  [NoIntent EXCEPT !.family = "create", !.pattern = ci, !.start = m.start,
                             !.raw = raw,
                             !.priority = infer_priority(Defillered(raw)),
                             !.title = clean_title(raw)]
      ELSE IF di # 0 THEN
        [NoIntent EXCEPT !.family = "delete", !.pattern = di,
                         !.identifier = Strip(Search(ql, delete_patterns[di]).group1)]
      ELSE IF s0.found THEN
        [NoIntent EXCEPT !.family = "status", !.pattern = 1,
                         !.identifier = Strip(s0.group1),
                         !.status = ReplaceChar(Upper(Strip(s0.group2)), " ", "_")]
      ELSE IF si # 0 THEN
        [NoIntent EXCEPT !.family = "status", !.pattern = si + 1,
                         !.identifier = Strip(Search(ql, status_patterns_rest[si]).group1),
                         !.status = "DONE"]
      ELSE IF ph # {} THEN
        [NoIntent EXCEPT !.family = PhraseFamilies[Min(ph)].handler]
      ELSE NoIntent


(***************************************************************************)
(* Bounds and input sets.                                                  *)
(***************************************************************************)
\* number of database writes (creations, updates) a behaviour performs; the
\* logical clock that stamps created_at / updated_at / completed_at stops there
MaxClock == 3

Users == {"alice", "bob"}

\* Python None
None == "<None>"

(***************************************************************************)
(* backend/models.py                                                       *)
(***************************************************************************)
TaskStatus   == {"TODO", "IN_PROGRESS", "DONE", "BLOCKED"}     \* member names
TaskPriority == {"LOW", "MEDIUM", "HIGH", "URGENT"}            \* member names

\* members of the two enumerations as Python values, told apart from strings
StatusMember(name)   == "TaskStatus." \o name
PriorityMember(name) == "TaskPriority." \o name
StatusMembers   == {StatusMember(n) : n \in TaskStatus}
PriorityMembers == {PriorityMember(n) : n \in TaskPriority}
MemberName(m) == IF m \in StatusMembers
                 THEN CHOOSE n \in TaskStatus : StatusMember(n) = m
                 ELSE CHOOSE n \in TaskPriority : PriorityMember(n) = m

\* generate_uuid(): a fresh identifier; the k-th row written gets the k-th one
DigitStr == << "1", "2", "3", "4", "5", "6", "7", "8", "9" >>
generate_uuid(clk) == "t" \o DigitStr[clk]

\* Task.to_dict(): the enumerations are rendered by their lower-case values
to_dict(t) == [t EXCEPT !.status = Lower(t.status), !.priority = Lower(t.priority)]

(***************************************************************************)
(* backend/services/task_service.py.  T is the tasks table, clk the clock. *)
(* A result is [tasks, now, raised, value]: the table and the clock after  *)
(* the call (unchanged when the session is rolled back), the exception     *)
(* that left the call ("" for none) and the returned value.                *)
(***************************************************************************)
\* an exception leaves the call: get_db rolls the session back
Raise(T, clk, exc) == [tasks |-> T, now |-> clk, raised |-> exc, value |-> None]

TaskService_create_task(T, clk, user_id, title, description, priority) ==
  LET name == IF priority \in PriorityMembers THEN MemberName(priority)
              ELSE IF priority # None /\ priority # "" THEN Upper(priority)
              ELSE "MEDIUM"
  IN  IF name \notin TaskPriority THEN Raise(T, clk, "KeyError")
      \* title and user_id are nullable=False: the flush fails, get_db rolls back
      ELSE IF title = None \/ user_id = None THEN Raise(T, clk, "IntegrityError")
      ELSE LET task == [id |-> generate_uuid(clk), user_id |-> user_id, title |-> title,
                        description |-> description, status |-> "TODO",
                        priority |-> name, source |-> "MANUAL", source_id |-> None,
                        completed_at |-> 0, created_at |-> clk, updated_at |-> clk]
           IN  [tasks |-> T \cup {task}, now |-> clk + 1, raised |-> "",
                value |-> task.id]

\* ORDER BY priority DESC, created_at DESC; the priority column holds the member
\* names, which SQLite compares as text
PriorityNameRank == [p \in TaskPriority |->
                       CASE p = "HIGH" -> 1 [] p = "LOW" -> 2
                         [] p = "MEDIUM" -> 3 [] p = "URGENT" -> 4]

ListedBefore(a, b) ==
  \/ PriorityNameRank[a.priority] > PriorityNameRank[b.priority]
  \/ /\ a.priority = b.priority
     /\ a.created_at > b.created_at

TaskService_get_user_tasks(T, user_id) ==
  LET mine == {t \in T : t.user_id = user_id}
      pos(t) == 1 + Cardinality({o \in mine : ListedBefore(o, t)})
  IN  [i \in 1..Cardinality(mine) |-> to_dict(CHOOSE t \in mine : pos(t) = i)]

\* update_task(task_id, title=None, description=None, status=None, priority=None)
TaskService_update_task(T, clk, task_id, title, description, status, priority) ==
  LET found == {t \in T : t.id = task_id}
  IN  IF found = {} THEN [tasks |-> T, now |-> clk, raised |-> "", value |-> None]
      ELSE
        LET t  == CHOOSE t \in found : TRUE
            sn == IF status = None THEN t.status
                  ELSE IF status \in StatusMembers THEN MemberName(status)
                  ELSE Upper(status)
            pn == IF priority = None THEN t.priority
                  ELSE IF priority \in PriorityMembers THEN MemberName(priority)
                  ELSE Upper(priority)
            u  == [t EXCEPT !.title = IF title = None THEN @ ELSE title,
                            !.description = IF description = None THEN @ ELSE description,
                            !.status = sn,
                            !.completed_at = IF status # None /\ sn = "DONE" THEN clk ELSE @,
                            !.priority = pn,
                            !.updated_at = clk]
        IN  IF sn \notin TaskStatus \/ pn \notin TaskPriority THEN Raise(T, clk, "KeyError")
            ELSE [tasks |-> (T \ {t}) \cup {u}, now |-> clk + 1, raised |-> "",
                  value |-> u.id]

\* delete_task(task_id)
TaskService_delete_task(T, clk, task_id) ==
  LET found == {t \in T : t.id = task_id}
  IN  IF found = {} THEN [tasks |-> T, now |-> clk, raised |-> "", value |-> FALSE]
      ELSE [tasks |-> T \ found, now |-> clk, raised |-> "", value |-> TRUE]

\* get_task(task_id)
TaskService_get_task(T, task_id) ==
  LET found == {t \in T : t.id = task_id}
  IN  IF found = {} THEN None ELSE to_dict(CHOOSE t \in found : TRUE)

\* number of positional parameters the static methods accept
Arity == [update_task |-> 6, delete_task |-> 1, get_task |-> 1]


(***************************************************************************)
(* backend/services/ai_action_handler.py: the handlers of the registry.    *)
(* params is a function from parameter names to values.  A handler result  *)
(* is [tasks, now, raised, success, message].                              *)
(***************************************************************************)
\* a parameter map gives every name of ParamKeys a value or Absent
ParamKeys == {"title", "description", "priority", "task_id", "status"}
Absent == "<absent>"
NoParams == [k \in ParamKeys |-> Absent]
Has(params, key) == params[key] # Absent
Get(params, key, default) == IF Has(params, key) THEN params[key] ELSE default

\* Python truthiness of a string or None
Falsy(v) == v = None \/ v = ""

\* api is the number of requests the handler has sent to the GitHub API
Returns(r, success, message) ==
  [tasks |-> r.tasks, now |-> r.now, raised |-> "", success |-> success,
   message |-> message, api |-> 0]

Raises(r, exc) ==
  [tasks |-> r.tasks, now |-> r.now, raised |-> exc, success |-> FALSE,
   message |-> "", api |-> 0]

Unchanged(T, clk) == [tasks |-> T, now |-> clk]

\* priority_map of _create_task
create_priority_map(priority_str) ==
  IF priority_str \in TaskPriority THEN PriorityMember(priority_str)
  ELSE IF priority_str = "CRITICAL" THEN PriorityMember("URGENT")
  ELSE PriorityMember("MEDIUM")

\* status_map.get(str(status_param).upper().replace(' ', '_'), TaskStatus.TODO)
update_status_map(status_param) ==
  LET status == ReplaceChar(Upper(status_param), " ", "_")
  IN  IF status \in TaskStatus THEN StatusMember(status) ELSE StatusMember("TODO")

\* priority_map.get(str(priority_param).upper(), TaskPriority.MEDIUM)
update_priority_map(priority_param) ==
  IF Upper(priority_param) \in TaskPriority THEN PriorityMember(Upper(priority_param))
  ELSE PriorityMember("MEDIUM")

create_task_handler(user_id, params, T, clk) ==
  LET title          == Get(params, "title", None)
      description    == Get(params, "description", "")
      priority_param == Get(params, "priority", "MEDIUM")
      priority_enum  == IF priority_param \in PriorityMembers THEN priority_param
                        ELSE create_priority_map(Upper(priority_param))
      r == TaskService_create_task(T, clk, user_id, title, description, priority_enum)
  IN  IF Falsy(title)
      THEN Returns(Unchanged(T, clk), FALSE, "Title is required to create a task")
      ELSE IF r.raised # "" THEN Returns(r, FALSE, "Failed to create task")
      ELSE Returns(r, TRUE, "Task Created Successfully")

delete_task_handler(user_id, params, T, clk) ==
  LET task_id == Get(params, "task_id", None)
      \* TaskService.delete_task(task_id, self.user_id): two positional arguments
      r == TaskService_delete_task(T, clk, task_id)
  IN  IF Falsy(task_id) THEN Returns(Unchanged(T, clk), FALSE, "Task ID is required")
      ELSE IF 2 > Arity.delete_task THEN Raises(Unchanged(T, clk), "TypeError")
      ELSE IF r.value THEN Returns(r, TRUE, "Task deleted successfully")
      ELSE Returns(r, FALSE, "Failed to delete task. Task not found or access denied.")

update_task_handler(user_id, params, T, clk) ==
  LET task_id == Get(params, "task_id", None)
      status   == IF ~Has(params, "status") THEN None
                  ELSE IF params["status"] \in StatusMembers THEN params["status"]
                  ELSE update_status_map(params["status"])
      priority == IF ~Has(params, "priority") THEN None
                  ELSE IF params["priority"] \in PriorityMembers THEN params["priority"]
                  ELSE update_priority_map(params["priority"])
      \* TaskService.update_task(task_id, self.user_id, **update_params): the
      \* second positional argument is the parameter title
      r == TaskService_update_task(T, clk, task_id, user_id,
                                   Get(params, "description", None), status, priority)
  IN  IF Falsy(task_id) THEN Returns(Unchanged(T, clk), FALSE, "Task ID is required")
      \* title given twice, by position and by keyword
      ELSE IF Has(params, "title") THEN Raises(Unchanged(T, clk), "TypeError")
      ELSE IF r.raised # "" THEN Raises(r, r.raised)
      ELSE IF r.value = None
      THEN Returns(r, FALSE, "Failed to update task. Task not found or access denied.")
      \* json.dumps(update_params): an enumeration member is not JSON serializable
      ELSE IF status # None \/ priority # None THEN Raises(r, "TypeError")
      ELSE Returns(r, TRUE, "Task updated successfully")

get_task_details_handler(user_id, params, T, clk) ==
  LET task_id == Get(params, "task_id", None)
  IN  IF Falsy(task_id) THEN Returns(Unchanged(T, clk), FALSE, "Task ID is required")
      \* TaskService.get_task(task_id, self.user_id): two positional arguments
      ELSE IF 2 > Arity.get_task THEN Raises(Unchanged(T, clk), "TypeError")
      ELSE IF TaskService_get_task(T, task_id) = None
      THEN Returns(Unchanged(T, clk), FALSE, "Task not found")
      ELSE Returns(Unchanged(T, clk), TRUE, "Task Details")

\* the handlers that only read: listings, statistics and the feature services.
\* fails tells whether the service behind the handler raises.
ReadOnlyHandlers ==
  {"list_tasks", "list_integrations", "get_stats", "predict_issues", "troubleshoot",
   "get_recommendations", "orchestrate", "generate_dashboard", "get_insights",
   "github_query"}

read_only_handler(name, fails, T, clk) ==
  IF fails THEN Raises(Unchanged(T, clk), "Exception")
  ELSE Returns(Unchanged(T, clk), TRUE, name)

\* the dictionary actions of execute_action
actions == {"create_task", "delete_task", "update_task", "get_task_details"}
           \cup ReadOnlyHandlers

CallHandler(name, user_id, params, fails, T, clk) ==
  CASE name = "create_task"      -> create_task_handler(user_id, params, T, clk)
    [] name = "delete_task"      -> delete_task_handler(user_id, params, T, clk)
    [] name = "update_task"      -> update_task_handler(user_id, params, T, clk)
    [] name = "get_task_details" -> get_task_details_handler(user_id, params, T, clk)
    [] OTHER                     -> read_only_handler(name, fails, T, clk)

\* execute_action without its except clause
execute_action_no_except(user_id, action, params, fails, T, clk) ==
  LET r == CallHandler(action, user_id, params, fails, T, clk)
  IN  IF action \notin actions THEN Returns(Unchanged(T, clk), FALSE, "Unknown action")
      ELSE r

\* execute_action(action, params)
execute_action(user_id, action, params, fails, T, clk) ==
  LET r == CallHandler(action, user_id, params, fails, T, clk)
  IN  IF action \notin actions THEN Returns(Unchanged(T, clk), FALSE, "Unknown action")
      ELSE IF r.raised # "" THEN Returns(r, FALSE, "Action failed")
      ELSE r


(***************************************************************************)
(* backend/services/ollama_chat_service_v2.py.  A message is [role,        *)
(* content]; the parameters of a function call are a sequence of           *)
(* << key, value >> pairs in the order they were parsed.                   *)
(***************************************************************************)
WordChars == DOMAIN UpperToLower \cup DOMAIN LowerToUpper \cup Digits \cup {"_"}
Quotes == {"\"", "'"}

\* number of consecutive characters outside the set stop from position i on
RunUntil(s, i, stop) ==
  Min({j \in i..(Len(s) + 1) : j = Len(s) + 1 \/ Ch(s, j) \in stop}) - i

\* FUNCTION_CALL:\s*(\w+)\((.*?)\) with re.IGNORECASE, tried at position i:
\* the positions of the two groups, or found = FALSE
MarkerAt(s, i) ==
  LET lit   == "function_call:"
      n0    == i + Len(lit)
      name0 == n0 + RunLen(s, n0, {" "})
      nlen  == RunLen(s, name0, WordChars)
      open  == name0 + nlen
      close == open + 1 + RunUntil(s, open + 1, {")"})
  IN  IF /\ Ch(s, i) \in {"f", "F"}
         /\ n0 - 1 <= Len(s)
         /\ Lower(SubSeq(s, i, n0 - 1)) = lit
         /\ nlen >= 1
         /\ MatchesAt(s, open, "(")
         /\ close <= Len(s)
      THEN [found |-> TRUE, name |-> SubSeq(s, name0, open - 1),
            params_str |-> SubSeq(s, open + 1, close - 1)]
      ELSE [found |-> FALSE, name |-> "", params_str |-> ""]

\* (\w+)=["\']([^"\']+)["\'] tried at position i of the parameter text
ParamAt(s, i) ==
  LET klen == RunLen(s, i, WordChars)
      eq   == i + klen
      v0   == eq + 2
      vlen == RunUntil(s, v0, Quotes)
  IN  IF /\ klen >= 1
         /\ MatchesAt(s, eq, "=")
         /\ eq + 1 <= Len(s) /\ Ch(s, eq + 1) \in Quotes
         /\ vlen >= 1
         /\ v0 + vlen <= Len(s)
      THEN [found |-> TRUE, key |-> SubSeq(s, i, eq - 1),
            value |-> SubSeq(s, v0, v0 + vlen - 1), next |-> v0 + vlen + 1]
      ELSE [found |-> FALSE, key |-> "", value |-> "", next |-> i + 1]

\* re.findall over the parameter text, from position i on
RECURSIVE FindParams(_, _)
FindParams(s, i) ==
  LET hits == {j \in i..Len(s) : ParamAt(s, j).found}
  IN  IF hits = {} THEN << >>
      ELSE LET m == ParamAt(s, Min(hits))
           IN  << << m.key, m.value >> >> \o FindParams(s, m.next)

NoCall == [found |-> FALSE, function |-> "", parameters |-> << >>]

\* _extract_function_call(response)
extract_function_call(response) ==
  LET hits == {i \in 1..Len(response) : MarkerAt(response, i).found}
  IN  IF hits = {} THEN NoCall
      ELSE LET m == MarkerAt(response, Min(hits))
           IN  [found |-> TRUE, function |-> m.name,
                parameters |-> FindParams(m.params_str, 1)]

\* params.get(key, default) of the dictionary built from the pairs
params_get(params, key, default) ==
  LET hits == {i \in 1..Len(params) : params[i][1] = key}
  IN  IF hits = {} THEN default
      ELSE params[CHOOSE i \in hits : \A j \in hits : j <= i][2]

GitHubFunctions ==
  {"list_github_repos", "get_repo_info", "list_pull_requests", "list_issues",
   "list_commits", "list_branches", "get_repo_stats"}

\* what the GitHub integration answers: a result dictionary or an exception
GitHubOutcomes == {"ok", "raises"}

\* priority_map.get(priority_str, TaskPriority.MEDIUM) of the executor
executor_priority_map(priority_str) ==
  IF priority_str \in TaskPriority THEN PriorityMember(priority_str)
  ELSE PriorityMember("MEDIUM")

\* the dictionaries _execute_function returns
NoResult == [kind |-> "none", success |-> FALSE, error |-> "", task_id |-> "",
             title |-> "", tasks |-> << >>, message |-> ""]

ErrorResult(error) == [NoResult EXCEPT !.kind = "error", !.error = error]

(***************************************************************************)
(* backend/services/github_integration.py: GitHubIntegrationService.  A    *)
(* service object is [enabled, outcome]: what _load_credentials found, and *)
(* what a request to the GitHub API gives, "ok" or "raises".  The result   *)
(* of a method is [result, api], api the number of requests it has sent.   *)
(* The texts are kept without their non-ASCII characters.                  *)
(***************************************************************************)
\* {"success": False, "error": "GitHub integration not configured", "message": ...}
NotConfigured(message) ==
  [NoResult EXCEPT !.kind = "not_configured",
                   !.error = "GitHub integration not configured",
                   !.message = message]

\* _disabled_response()
disabled_response ==
  NotConfigured("Add GitHub integration in Settings -> Integrations to enable GitHub features")

\* a method without its check of self.enabled
github_method_unguarded(github) ==
  IF github.outcome = "ok"
  THEN [result |-> [NoResult EXCEPT !.kind = "github", !.success = TRUE], api |-> 1]
  ELSE [result |-> ErrorResult("Exception"), api |-> 1]

\* list_repositories, get_repository, list_pull_requests, list_issues, list_commits,
\* list_branches, get_repository_stats: if not self.enabled the disabled response;
\* else the request, whose failure the method turns into an error dictionary
github_method(github) ==
  IF ~github.enabled THEN [result |-> disabled_response, api |-> 0]
  ELSE IF github.outcome = "ok"
  THEN [result |-> [NoResult EXCEPT !.kind = "github", !.success = TRUE], api |-> 1]
  ELSE [result |-> ErrorResult("Exception"), api |-> 1]

\* int(text) succeeds; the texts of the model hold no sign and no white space
is_int(text) == Len(text) > 0 /\ RunLen(text, 1, Digits) = Len(text)

\* the functions _execute_function has a branch for
KnownFunctions == GitHubFunctions \cup {"create_task", "list_tasks"}

\* the body of the try block of _execute_function: [tasks, now, raised, result],
\* raised the exception that leaves the body ("" for none)
\* task_id = TaskService.create_task(...);
\* return {"success": True, "task_id": task_id, "title": params.get("title")}
create_task_result(r, title) ==
  IF r.raised # ""
  THEN [tasks |-> r.tasks, now |-> r.now, raised |-> r.raised,
        result |-> NoResult, api |-> 0]
  ELSE [tasks |-> r.tasks, now |-> r.now, raised |-> "",
        result |-> [NoResult EXCEPT !.kind = "created", !.success = TRUE,
                                    !.task_id = r.value, !.title = title],
        api |-> 0]

\* return result, of a method of the GitHub service
github_result(called, T, clk) ==
  [tasks |-> T, now |-> clk, raised |-> "", result |-> called.result,
   api |-> called.api]

execute_function_body(function_call, user_id, github, T, clk) ==
  LET function_name == function_call.function
      params        == function_call.parameters
      same(result)  == [tasks |-> T, now |-> clk, raised |-> "", result |-> result,
                        api |-> 0]
  IN  IF function_name \in GitHubFunctions THEN
        IF function_name = "list_github_repos" /\ ~github.enabled
        THEN same(NotConfigured("Please add GitHub integration in Settings -> Integrations. Go to https://github.com/settings/tokens to get a token."))
        ELSE IF function_name = "list_commits" /\ ~github.enabled
        THEN same(NotConfigured("Please add GitHub integration in Settings -> Integrations"))
        \* limit=int(params.get("limit", "10"))
        ELSE IF function_name = "list_commits"
                /\ ~is_int(params_get(params, "limit", "10"))
        THEN [tasks |-> T, now |-> clk, raised |-> "ValueError", result |-> NoResult,
              api |-> 0]
        ELSE github_result(github_method(github), T, clk)
      ELSE IF function_name = "create_task" THEN
        create_task_result(
          TaskService_create_task(
            T, clk, user_id, params_get(params, "title", None),
            params_get(params, "description", ""),
            executor_priority_map(Upper(params_get(params, "priority", "MEDIUM")))),
          params_get(params, "title", None))
      ELSE IF function_name = "list_tasks" THEN
        same([NoResult EXCEPT !.kind = "listed", !.success = TRUE,
                              !.tasks = TaskService_get_user_tasks(T, user_id)])
      ELSE same(ErrorResult("Unknown function: " \o function_name))

\* the exception of the try block leaves the call
no_except(r) ==
  [tasks |-> r.tasks, now |-> r.now, raised |-> r.raised, result |-> r.result,
   inner |-> r.raised, api |-> r.api]

\* except Exception as e: return {"success": False, "error": str(e)}; inner is the
\* exception that was caught
except_Exception(r) ==
  IF r.raised # ""
  THEN [tasks |-> r.tasks, now |-> r.now, raised |-> "",
        result |-> ErrorResult(r.raised), inner |-> r.raised, api |-> r.api]
  ELSE [tasks |-> r.tasks, now |-> r.now, raised |-> "", result |-> r.result,
        inner |-> "", api |-> r.api]

\* _execute_function without its except branch
execute_function_no_except(function_call, user_id, github, T, clk) ==
  no_except(execute_function_body(function_call, user_id, github, T, clk))

\* _execute_function(function_call, user_id, context): [tasks, now, raised, result,
\* inner, api]
execute_function(function_call, user_id, github, T, clk) ==
  except_Exception(execute_function_body(function_call, user_id, github, T, clk))

\* json.dumps of the values of the result dictionaries
json_str(v) == IF v = None THEN "null" ELSE "\"" \o v \o "\""
json_time(t) == IF t = 0 THEN "null" ELSE "\"T" \o DigitStr[t] \o "\""
json_int(n) == IF n = 0 THEN "0" ELSE DigitStr[n]

json_task(t) ==
  "{\"id\": " \o json_str(t.id) \o ", \"user_id\": " \o json_str(t.user_id)
  \o ", \"title\": " \o json_str(t.title)
  \o ", \"description\": " \o json_str(t.description)
  \o ", \"status\": " \o json_str(t.status) \o ", \"priority\": " \o json_str(t.priority)
  \o ", \"source\": " \o json_str(Lower(t.source))
  \o ", \"completed_at\": " \o json_time(t.completed_at)
  \o ", \"created_at\": " \o json_time(t.created_at)
  \o ", \"updated_at\": " \o json_time(t.updated_at) \o "}"

RECURSIVE json_list(_)
json_list(ts) ==
  IF Len(ts) = 0 THEN ""
  ELSE IF Len(ts) = 1 THEN json_task(ts[1])
  ELSE json_task(ts[1]) \o ", " \o json_list(Tail(ts))

\* json.dumps(result)
json_dumps(result) ==
  CASE result.kind = "created" ->
         "{\"success\": true, \"task_id\": " \o json_str(result.task_id)
         \o ", \"title\": " \o json_str(result.title) \o "}"
    [] result.kind = "listed" ->
         "{\"success\": true, \"tasks\": [" \o json_list(result.tasks)
         \o "], \"count\": " \o json_int(Len(result.tasks)) \o "}"
    [] result.kind = "github" -> "{\"success\": true}"
    [] result.kind = "not_configured" ->
         "{\"success\": false, \"error\": " \o json_str(result.error)
         \o ", \"message\": " \o json_str(result.message) \o "}"
    [] OTHER -> "{\"success\": false, \"error\": " \o json_str(result.error) \o "}"

Message(role, content) == [role |-> role, content |-> content]

\* self.conversation_history[-4:]
LastFour(history) ==
  SubSeq(history, IF Len(history) > 4 THEN Len(history) - 3 ELSE 1, Len(history))

\* the follow-up without the function result
followup_without_result(messages, ai_response, result) ==
  messages \o << Message("assistant", ai_response) >>

\* the messages of the formatting request
followup_messages(messages, ai_response, result) ==
  messages \o << Message("assistant", ai_response),
                 Message("user", "Function result: " \o json_dumps(result)) >>


(***************************************************************************)
(* backend/models.py, backend/services/integration_service.py: the rows of *)
(* the integrations table and their dictionaries.  I is the table.         *)
(***************************************************************************)
IntegrationStatus == {"PENDING", "ACTIVE", "ERROR", "DISABLED"}   \* member names

\* Integration.to_dict(): the status is rendered by its lower-case value
Integration_to_dict(i) ==
  [id |-> i.id, type |-> i.type, name |-> i.name, status |-> Lower(i.status)]

\* ORDER BY created_at DESC
IntegrationService_get_user_integrations(I, user_id) ==
  LET mine == {i \in I : i.created_by = user_id}
      pos(i) == 1 + Cardinality({o \in mine : o.created_at > i.created_at})
  IN  [k \in 1..Cardinality(mine) |->
         Integration_to_dict(CHOOSE i \in mine : pos(i) = k)]

\* TaskService.get_task_stats(user_id)
TaskService_get_task_stats(T, user_id) ==
  LET all_tasks == {t \in T : t.user_id = user_id}
      count(S) == Cardinality(S)
  IN  [total       |-> count(all_tasks),
       todo        |-> count({t \in all_tasks : t.status = "TODO"}),
       in_progress |-> count({t \in all_tasks : t.status = "IN_PROGRESS"}),
       done        |-> count({t \in all_tasks : t.status = "DONE"}),
       urgent      |-> count({t \in all_tasks : t.priority = "URGENT" /\ t.status # "DONE"}),
       high        |-> count({t \in all_tasks : t.priority = "HIGH" /\ t.status # "DONE"})]

\* the task counts AIActionHandler._get_stats prints: stats.get(key, 0) of the
\* dictionary of get_task_stats, which has no key 'blocked'
get_stats_counts(T, user_id) ==
  LET stats == TaskService_get_task_stats(T, user_id)
  IN  [total |-> stats.total, todo |-> stats.todo, in_progress |-> stats.in_progress,
       done |-> stats.done, blocked |-> 0, urgent |-> stats.urgent]

(***************************************************************************)
(* The context dictionary handed to chat.  truthy tells whether the        *)
(* dictionary is given and not empty; the entry 'tasks' is absent, a list  *)
(* of task dictionaries (the old format) or the dictionary built by        *)
(* get_full_app_context, and likewise the entry 'integrations'.            *)
(***************************************************************************)
\* [x for x in xs if x.get('status') == status]
WithStatus(xs, status) == SelectSeq(xs, LAMBDA x : x.status = status)

ByStatusKeys == {"TODO", "IN_PROGRESS", "DONE", "BLOCKED"}

NoContext ==
  [truthy |-> FALSE, tasks_format |-> "absent", total |-> 0, all_tasks |-> << >>,
   by_status |-> [k \in ByStatusKeys |-> << >>],
   stats |-> [total |-> 0, todo |-> 0, in_progress |-> 0, done |-> 0,
              urgent |-> 0, high |-> 0],
   integrations_format |-> "absent", all_integrations |-> << >>]

\* AIActionHandler.get_full_app_context()
get_full_app_context(T, I, user_id) ==
  LET listing == TaskService_get_user_tasks(T, user_id)
  IN  [truthy |-> TRUE, tasks_format |-> "dict", total |-> Len(listing),
       all_tasks |-> listing,
       by_status |-> [k \in ByStatusKeys |-> WithStatus(listing, k)],
       stats |-> TaskService_get_task_stats(T, user_id),
       integrations_format |-> "dict",
       all_integrations |-> IntegrationService_get_user_integrations(I, user_id)]

\* {'tasks': [...]}: the old format, the list of task dictionaries itself
list_context(listing) ==
  [NoContext EXCEPT !.truthy = TRUE, !.tasks_format = "list", !.all_tasks = listing]

\* context.get('tasks') is truthy: a dictionary with entries, or a list with elements
context_get_tasks(context) ==
  \/ context.tasks_format = "dict"
  \/ context.tasks_format = "list" /\ Len(context.all_tasks) > 0

context_get_integrations(context) ==
  \/ context.integrations_format = "dict"
  \/ context.integrations_format = "list" /\ Len(context.all_integrations) > 0

\* str(n) of a count
str_int(n) == IF n = 0 THEN "0" ELSE DigitStr[n]

\* xs[:5]
FirstFive(xs) == SubSeq(xs, 1, IF Len(xs) > 5 THEN 5 ELSE Len(xs))

(***************************************************************************)
(* OllamaChatServiceV2._build_system_prompt_with_tools(context, user_id).  *)
(* The texts are kept without their emoji.                                 *)
(***************************************************************************)
\* the fixed part of the prompt: capabilities, examples and rules; the model keeps
\* no text of it
prompt_head == "<capabilities, examples and rules>"

\* the line of the app state about the tasks
app_state_tasks(context) ==
  IF context_get_tasks(context) THEN
    LET tasks_list == context.all_tasks
    IN  IF Len(tasks_list) > 0
        THEN "\nTasks: " \o str_int(Len(tasks_list)) \o " total ("
             \o str_int(Len(WithStatus(tasks_list, "TODO"))) \o " TODO, "
             \o str_int(Len(WithStatus(tasks_list, "IN_PROGRESS"))) \o " IN PROGRESS, "
             \o str_int(Len(WithStatus(tasks_list, "DONE"))) \o " DONE)"
        ELSE "\nTasks: None yet"
  ELSE ""

\* the line of the app state about the integrations
app_state_integrations(context) ==
  IF context_get_integrations(context) THEN
    LET integ_list == context.all_integrations
        github == SelectSeq(integ_list,
                            LAMBDA i : i.type = "github" /\ i.status = "active")
    IN  IF Len(integ_list) > 0
        THEN "\nIntegrations: " \o str_int(Len(integ_list)) \o " configured"
             \o (IF Len(github) > 0 THEN " (GitHub ACTIVE)"
                 ELSE " (GitHub not configured)")
        ELSE "\nIntegrations: None configured"
  ELSE ""

system_prompt(context) ==
  prompt_head
  \o (IF context.truthy
      THEN "\n\nCURRENT APP STATE:\n" \o app_state_tasks(context)
           \o app_state_integrations(context)
      ELSE "")
  \o "\n\nBe helpful, concise, and use functions when appropriate!"

\* the messages of the first request
first_messages(history, message, context) ==
  << Message("system", system_prompt(context)), Message("user", message) >>
  \o LastFour(history) \o << Message("user", message) >>

(***************************************************************************)
(* backend/services/ollama_chat_service.py: OllamaChatService.  The texts  *)
(* are kept without their emoji.                                           *)
(***************************************************************************)
\* the lines of the tasks shown for a status
RECURSIVE task_lines(_)
task_lines(ts) ==
  IF Len(ts) = 0 THEN ""
  ELSE "    - " \o ts[1].title \o " (Priority: " \o ts[1].priority \o ", ID: "
       \o ts[1].id \o ")\n" \o task_lines(Tail(ts))

\* the part of context_info about the tasks
context_info_tasks(context) ==
  IF context_get_tasks(context) THEN
    LET ts          == context.all_tasks
        todo        == WithStatus(ts, "TODO")
        in_progress == WithStatus(ts, "IN_PROGRESS")
        done        == WithStatus(ts, "DONE")
    IN  IF Len(ts) = 0
        THEN "\n**Tasks:** NO TASKS EXIST YET\n"
             \o "   Tell the user they have no tasks and suggest creating one.\n"
        ELSE "\n**Your Tasks (" \o str_int(Len(ts)) \o " total):**\n"
             \o (IF Len(todo) > 0
                 THEN "\n  TO DO (" \o str_int(Len(todo)) \o " tasks):\n"
                      \o task_lines(FirstFive(todo))
                 ELSE "")
             \o (IF Len(in_progress) > 0
                 THEN "\n  IN PROGRESS (" \o str_int(Len(in_progress)) \o " tasks):\n"
                      \o task_lines(FirstFive(in_progress))
                 ELSE "")
             \o (IF Len(done) > 0
                 THEN "\n  DONE (" \o str_int(Len(done)) \o " tasks)\n"
                 ELSE "")
             \o (IF Len(todo) = 0 /\ Len(in_progress) = 0 /\ Len(done) = 0
                 THEN "   (All tasks are in other statuses)\n"
                 ELSE "")
  ELSE "\n**Tasks:** NO TASK DATA AVAILABLE\n"

RECURSIVE integration_lines(_)
integration_lines(is) ==
  IF Len(is) = 0 THEN ""
  ELSE "  - " \o is[1].name \o " (" \o is[1].type \o "): "
       \o (IF is[1].status = "ACTIVE" THEN "ACTIVE" ELSE "(!) " \o is[1].status)
       \o "\n" \o integration_lines(Tail(is))

\* the part of context_info about the integrations
context_info_integrations(context) ==
  IF context_get_integrations(context) THEN
    LET integ == context.all_integrations
    IN  IF Len(integ) = 0
        THEN "\n**Integrations:** NONE CONFIGURED\n"
        ELSE "\n**Integrations (" \o str_int(Len(integ)) \o " configured):**\n"
             \o integration_lines(integ)
  ELSE "\n**Integrations:** NO DATA AVAILABLE\n"

\* enhanced_message: the message with the context block in front of it; no context
\* of the model has an entry 'user_info'
enhanced_message(message, context) ==
  IF ~context.truthy THEN message
  ELSE "\n\n=== REAL-TIME APP DATA ===\n"
       \o context_info_tasks(context)
       \o context_info_integrations(context)
       \o "\n=== END OF REAL DATA ===\n\n"
       \o "**User Question:** " \o message

\* the bound of the stored history
HistoryMax == 6

\* if len(self.conversation_history) > 6: ... = self.conversation_history[-6:]
keep_last(h) ==
  IF Len(h) > HistoryMax THEN SubSeq(h, Len(h) - HistoryMax + 1, Len(h)) ELSE h

\* the system prompt of OllamaChatService; the model keeps no text of it
system_prompt1 == "<system prompt of OllamaChatService>"

\* messages_to_send: the system prompt is added if the history holds one message
messages_to_send(conversation_history) ==
  (IF Len(conversation_history) = 1
   THEN << Message("system", system_prompt1) >> ELSE << >>)
  \o conversation_history

(***************************************************************************)
(* backend/services/credential_vault.py: CredentialVault.  A Python value  *)
(* is a record [t, s, items]: its type, its text (of a str, an int, a      *)
(* bool, a bytes object or the key of a dictionary item) and its elements  *)
(* (of a list, a tuple, a dictionary or a dictionary item).                *)
(***************************************************************************)
Py(t, s, items) == [t |-> t, s |-> s, items |-> items]
PyStr(s)        == Py("str", s, << >>)
PyInt(s)        == Py("int", s, << >>)
PyBool(s)       == Py("bool", s, << >>)
PyNone          == Py("none", "", << >>)
PyBytes(s)      == Py("bytes", s, << >>)
PyList(items)   == Py("list", "", items)
PyTuple(items)  == Py("tuple", "", items)
PyDict(items)   == Py("dict", "", items)
\* a dictionary item with a str key, and one with an int key
Item(key, v)    == Py("item", key, << v >>)
IntItem(key, v) == Py("int_item", key, << v >>)
EmptyDict       == PyDict(<< >>)

\* the character of s at position i, "" outside of s
At(s, i) == IF i >= 1 /\ i <= Len(s) THEN Ch(s, i) ELSE ""

\* a string inside a JSON text without the escapes
json_escape_none(s) == s

RECURSIVE json_escape(_)
\* a string inside a JSON text: the quote and the backslash are escaped; the texts
\* of the model hold no control and no non-ASCII character
json_escape(s) ==
  IF Len(s) = 0 THEN ""
  ELSE (IF Ch(s, 1) \in {"\"", "\\"} THEN "\\" \o Ch(s, 1) ELSE Ch(s, 1))
       \o json_escape(SubSeq(s, 2, Len(s)))

RECURSIVE json_join(_)
\* ', '.join(texts)
json_join(texts) ==
  IF Len(texts) = 0 THEN ""
  ELSE IF Len(texts) = 1 THEN texts[1]
  ELSE texts[1] \o ", " \o json_join(Tail(texts))

RECURSIVE json_dumps_value(_)
\* json.dumps(v): [raised, text].  A tuple is written as a list, a key that is an
\* int as a string; bytes are not serializable
json_dumps_value(v) ==
  LET ok(text) == [raised |-> "", text |-> text]
      parts    == [i \in 1..Len(v.items) |-> json_dumps_value(v.items[i])]
      failed   == {i \in 1..Len(v.items) : parts[i].raised # ""}
      texts    == [i \in 1..Len(v.items) |-> parts[i].text]
      error    == [raised |-> "TypeError", text |-> ""]
  IN  CASE v.t = "str"  -> ok("\"" \o json_escape(v.s) \o "\"")
        [] v.t = "int"  -> ok(v.s)
        [] v.t = "bool" -> ok(IF v.s = "True" THEN "true" ELSE "false")
        [] v.t = "none" -> ok("null")
        [] v.t \in {"list", "tuple"} ->
             IF failed # {} THEN error ELSE ok("[" \o json_join(texts) \o "]")
        [] v.t = "dict" ->
             IF failed # {} THEN error ELSE ok("{" \o json_join(texts) \o "}")
        [] v.t = "item" ->
             IF failed # {} THEN error
             ELSE ok("\"" \o json_escape(v.s) \o "\": " \o texts[1])
        [] v.t = "int_item" ->
             IF failed # {} THEN error ELSE ok("\"" \o v.s \o "\": " \o texts[1])
        [] OTHER -> error

\* white space of a JSON text
JsonSpace == {" ", "\n", "\t", "\r"}

skip_ws(s, i) == i + RunLen(s, i, JsonSpace)

NotParsed == [ok |-> FALSE, v |-> PyNone, next |-> 0]
Parsed(v, next) == [ok |-> TRUE, v |-> v, next |-> next]

RECURSIVE loads_string(_, _, _)
\* the string whose opening quote has been read, from position j on
loads_string(s, j, acc) ==
  IF j > Len(s) THEN NotParsed
  ELSE IF Ch(s, j) = "\"" THEN Parsed(PyStr(acc), j + 1)
  ELSE IF Ch(s, j) = "\\" THEN
    IF At(s, j + 1) \in {"\"", "\\", "/"}
    THEN loads_string(s, j + 2, acc \o Ch(s, j + 1))
    ELSE NotParsed
  ELSE loads_string(s, j + 1, acc \o Ch(s, j))

\* d[key] = v on the items of a dictionary
dict_put(items, key, v) ==
  LET hits == {i \in 1..Len(items) : items[i].s = key}
  IN  IF hits = {} THEN Append(items, Item(key, v))
      ELSE [items EXCEPT ![CHOOSE i \in hits : TRUE] = Item(key, v)]

RECURSIVE loads_value(_, _), loads_elements(_, _, _), loads_members(_, _, _)
\* the JSON value that starts at position i: [ok, v, next]
loads_value(s, i) ==
  CASE At(s, i) = "\"" -> loads_string(s, i + 1, "")
    [] At(s, i) \in Digits ->
         LET n == RunLen(s, i, Digits)
         IN  Parsed(PyInt(SubSeq(s, i, i + n - 1)), i + n)
    [] MatchesAt(s, i, "true")  -> Parsed(PyBool("True"), i + 4)
    [] MatchesAt(s, i, "false") -> Parsed(PyBool("False"), i + 5)
    [] MatchesAt(s, i, "null")  -> Parsed(PyNone, i + 4)
    [] At(s, i) = "[" ->
         LET j == skip_ws(s, i + 1)
         IN  IF At(s, j) = "]" THEN Parsed(PyList(<< >>), j + 1)
             ELSE loads_elements(s, j, << >>)
    [] At(s, i) = "{" ->
         LET j == skip_ws(s, i + 1)
         IN  IF At(s, j) = "}" THEN Parsed(EmptyDict, j + 1)
             ELSE loads_members(s, j, << >>)
    [] OTHER -> NotParsed

\* the elements of a list from position i on, acc the ones read
loads_elements(s, i, acc) ==
  LET r == loads_value(s, i)
      j == skip_ws(s, r.next)
  IN  IF ~r.ok THEN NotParsed
      ELSE IF At(s, j) = ","
      THEN loads_elements(s, skip_ws(s, j + 1), Append(acc, r.v))
      ELSE IF At(s, j) = "]" THEN Parsed(PyList(Append(acc, r.v)), j + 1)
      ELSE NotParsed

\* the members of an object from position i on, acc the ones read
loads_members(s, i, acc) ==
  LET k  == IF At(s, i) = "\"" THEN loads_string(s, i + 1, "") ELSE NotParsed
      j  == skip_ws(s, k.next)
      r  == IF At(s, j) = ":" THEN loads_value(s, skip_ws(s, j + 1)) ELSE NotParsed
      j2 == skip_ws(s, r.next)
      read == dict_put(acc, k.v.s, r.v)
  IN  IF ~k.ok THEN NotParsed
      ELSE IF ~r.ok THEN NotParsed
      ELSE IF At(s, j2) = "," THEN loads_members(s, skip_ws(s, j2 + 1), read)
      ELSE IF At(s, j2) = "}" THEN Parsed(PyDict(read), j2 + 1)
      ELSE NotParsed

\* json.loads(text): [raised, value]
json_loads(text) ==
  LET r == loads_value(text, skip_ws(text, 1))
  IN  IF r.ok /\ skip_ws(text, r.next) = Len(text) + 1
      THEN [raised |-> "", value |-> r.v]
      ELSE [raised |-> "JSONDecodeError", value |-> PyNone]

\* the key of self._cipher
MasterKey == "<master key>"

NoToken == [key |-> "", nonce |-> "", data |-> ""]

\* Fernet(key).encrypt(data): a token that holds the time of the call and a random
\* initialization vector, both in nonce, and the data enciphered under the key
Fernet_encrypt(key, data, nonce) == [key |-> key, nonce |-> nonce, data |-> data]

\* Fernet(key).decrypt(token): [raised, data]; InvalidToken unless the token was
\* made under the key
Fernet_decrypt(key, token) ==
  IF token # NoToken /\ token.key = key
  THEN [raised |-> "", data |-> token.data]
  ELSE [raised |-> "InvalidToken", data |-> ""]

\* CredentialVault.encrypt_credentials(credentials): [raised, token]
encrypt_credentials(credentials, nonce) ==
  LET dumped == json_dumps_value(credentials)
  IN  IF dumped.raised # "" THEN [raised |-> dumped.raised, token |-> NoToken]
      ELSE [raised |-> "",
            token |-> Fernet_encrypt(MasterKey, dumped.text, nonce)]

\* CredentialVault.decrypt_credentials(encrypted_data); except Exception: return {}
decrypt_credentials(encrypted_data) ==
  LET decrypted == Fernet_decrypt(MasterKey, encrypted_data)
      credentials == json_loads(decrypted.data)
  IN  IF decrypted.raised # "" THEN EmptyDict
      ELSE IF credentials.raised # "" THEN EmptyDict
      ELSE credentials.value

(***************************************************************************)
(* backend/services/integration_service.py on the integrations table I. A *)
(* row carries the row of integration_credentials that belongs to it:      *)
(* has_credential tells whether there is one, encrypted_data is its token, *)
(* and credentials tabulates what the vault decrypts that token to.        *)
(***************************************************************************)
\* Python truthiness of a value
Truthy(v) ==
  CASE v.t \in {"str", "bytes"} -> v.s # ""
    [] v.t = "int" -> v.s # "0"
    [] v.t = "bool" -> v.s = "True"
    [] v.t \in {"list", "tuple", "dict"} -> Len(v.items) > 0
    [] OTHER -> FALSE

\* d.get(key) of a dictionary
dict_get(d, key) ==
  LET hits == {i \in 1..Len(d.items) : d.items[i].t = "item" /\ d.items[i].s = key}
  IN  IF hits = {} THEN PyNone ELSE d.items[Min(hits)].items[1]

\* IntegrationService.create_integration(user_id, type, name, credentials=...):
\* [integrations, now, raised, value]
IntegrationService_create_integration(I, clk, user_id, type, name, credentials, nonce) ==
  LET encrypted == encrypt_credentials(credentials, nonce)
      integration == [id |-> generate_uuid(clk), type |-> type, name |-> name,
                      status |-> "PENDING", created_by |-> user_id,
                      created_at |-> clk,
                      \* if credentials: ... db.add(credential)
                      has_credential |-> Truthy(credentials),
                      encrypted_data |-> IF Truthy(credentials) THEN encrypted.token
                                         ELSE NoToken,
                      credentials |-> IF Truthy(credentials)
                                      THEN decrypt_credentials(encrypted.token)
                                      ELSE PyNone]
  IN  IF Truthy(credentials) /\ encrypted.raised # ""
      \* the exception leaves get_db, which rolls the new row back
      THEN [integrations |-> I, now |-> clk, raised |-> encrypted.raised,
            value |-> None]
      ELSE [integrations |-> I \cup {integration}, now |-> clk + 1, raised |-> "",
            value |-> integration.id]

\* IntegrationService.update_integration(integration_id, status=status):
\* [integrations, raised]; IntegrationStatus[status.upper()]
IntegrationService_update_integration(I, integration_id, status) ==
  IF ~\E i \in I : i.id = integration_id THEN [integrations |-> I, raised |-> ""]
  ELSE IF Upper(status) \notin IntegrationStatus
  THEN [integrations |-> I, raised |-> "KeyError"]
  ELSE [integrations |-> {IF i.id = integration_id
                          THEN [i EXCEPT !.status = Upper(status)] ELSE i : i \in I},
        raised |-> ""]

\* IntegrationService.get_integration_credentials(integration_id): None without a
\* credential row, else what the vault decrypts
IntegrationService_get_integration_credentials(I, integration_id) ==
  LET rows == {i \in I : i.id = integration_id /\ i.has_credential}
  IN  IF rows = {} THEN PyNone
      \* vault.decrypt_credentials(credential.encrypted_data)
      ELSE (CHOOSE i \in rows : TRUE).credentials

(***************************************************************************)
(* GitHubIntegrationService._load_credentials(): the value of self.enabled *)
(* for the table I and the environment env.                                *)
(***************************************************************************)
\* creds.get('access_token') or creds.get('token') if creds else None
credentials_token(creds) ==
  IF Truthy(creds)
  THEN IF Truthy(dict_get(creds, "access_token"))
       THEN dict_get(creds, "access_token")
       ELSE dict_get(creds, "token")
  ELSE PyNone

\* if github_integrations: ... if token: self.enabled = True; return
database_token(I, github_integrations) ==
  /\ Len(github_integrations) > 0
  /\ Truthy(credentials_token(
              IntegrationService_get_integration_credentials(
                I, github_integrations[1].id)))

load_credentials(I, env, user_id) ==
  \/ /\ ~Falsy(user_id)
     /\ database_token(
          I, SelectSeq(IntegrationService_get_user_integrations(I, user_id),
                       LAMBDA i : i.type = "github"
                                  /\ i.status \in {"active", "error"}))
  \* the fallback: os.getenv('GITHUB_TOKEN')
  \/ ~Falsy(env.GITHUB_TOKEN)

(***************************************************************************)
(* backend/services/github_ai_handler.py: GitHubAIHandler.handle_query.    *)
(* The result is a handler result whose api counts the requests sent.      *)
(***************************************************************************)
NotConfiguredText == "GitHub integration not configured. Add GITHUB_TOKEN to .env file."

\* _extract_repo_from_query finds an owner and a repository: word/word.  The
\* texts of the model hold no '-' and no default repository is set.
extract_repo_found(query) ==
  \E i \in 2..(Len(query) - 1) :
    /\ Ch(query, i) = "/"
    /\ Ch(query, i - 1) \in WordChars
    /\ Ch(query, i + 1) \in WordChars

\* the chain of phrase tests of handle_query, in its order
handle_query_branch(query_lower) ==
  LET any(phrases) == \E p \in phrases : Contains(query_lower, p)
  IN  CASE any({"list repos", "show repos", "my repositories", "what repos"}) -> "repos"
        [] any({"pull requests", "prs", "show prs", "list prs"}) -> "pull_requests"
        [] any({"issues", "show issues", "list issues", "bugs"}) -> "issues"
        [] any({"create issue", "new issue", "add issue", "report bug"}) -> "create_issue"
        [] any({"commits", "show commits", "recent commits", "commit history"}) -> "commits"
        [] any({"branches", "show branches", "list branches"}) -> "branches"
        [] any({"repo stats", "repository statistics", "repo info"}) -> "repo_stats"
        [] any({"search code", "find code", "search in repo"}) -> "search"
        [] OTHER -> "help"

\* return True, response  /  return False, result.get('error', ...)
query_result(called, branch, T, clk) ==
  [tasks |-> T, now |-> clk, raised |-> "", success |-> called.result.success,
   message |-> IF called.result.success THEN branch ELSE called.result.error,
   api |-> called.api]

\* the branch of handle_query when the service is available
handle_query_in(github, branch, query, T, clk) ==
  IF branch \in {"search", "help"} THEN Returns(Unchanged(T, clk), TRUE, branch)
  ELSE IF branch # "repos" /\ ~extract_repo_found(query)
  THEN Returns(Unchanged(T, clk), FALSE, "Please specify repository")
  ELSE query_result(github_method(github), branch, T, clk)

handle_query(github, query, T, clk) ==
  IF ~github.enabled THEN Returns(Unchanged(T, clk), FALSE, NotConfiguredText)
  ELSE handle_query_in(github, handle_query_branch(Lower(query)), query, T, clk)

(***************************************************************************)
(* Inputs.                                                                 *)
(***************************************************************************)
\* texts about tasks typed into the chat box while tasks exist
TaskCommands ==
  { "create task: x",
    "create task: ",
    "delete task x",
    "delete task t1",
    "delete task nope",
    "remove the task: new task x",
    "mark task x as done",
    "mark task Update docs as done",
    "mark task t1 to blocked",
    "mark task new task x as done",
    "complete task x" }

\* texts that two families match, or one of the listing and feature families
RouteCommands ==
  { "delete task and list tasks",
    "list tasks",
    "show tasks and stats",
    "list integrations summary",
    "stats forecast",
    "predict and debug",
    "debug advice",
    "recommend trends",
    "trends dashboard",
    "deploy dashboard",
    "deploy repo",
    "hello" }

Commands == TaskCommands \cup RouteCommands

\* texts for the matching stage and the title cleanup: creation commands put
\* together from a head, a separator and a title text, and one text or more
\* for every other family
CreateHeads == {"create task", "add a task", "Create task for me", "make new user"}
CreateSeps  == {": ", " ", " called ", " by the name ", " by the name of ", " with name "}
TitleTexts  ==
  { "Fix login bug urgent", "Update docs for me", "X", "urgent", "", "for me for me",
    "fix called bug", "ururgentgent", "Ship it high priority!", "low priority cleanup" }

OtherTexts ==
  { "create task",
    "new task: named Critical fix",
    "delete task x",
    "delete task id: t1",
    "delete task with id t1",
    "mark task x as done",
    "set task x to in progress",
    "change task move to done as blocked",
    "complete task x",
    "finish task: delete task x",
    "list tasks",
    "list integrations",
    "my stats",
    "predict issues",
    "debug it",
    "daily briefing",
    "trends",
    "dashboard",
    "deploy",
    "improve it",
    "hello" }

Queries ==
  {h \o sep \o t : h \in CreateHeads, sep \in CreateSeps, t \in TitleTexts}
  \cup OtherTexts \cup Commands

\* whether the service behind a read-only handler may raise for this intent
FailChoices(family) == IF family \in ReadOnlyHandlers THEN BOOLEAN ELSE {FALSE}

\* the calls of execute_action: an action name and a parameter map
ExecInputs ==
  { << "create_task", NoParams >>,
    << "create_task", [NoParams EXCEPT !["title"] = ""] >>,
    << "create_task", [NoParams EXCEPT !["title"] = "x"] >>,
    << "create_task", [NoParams EXCEPT !["title"] = "x", !["priority"] = "bogus"] >>,
    << "create_task", [NoParams EXCEPT !["title"] = "x", !["priority"] = "critical"] >>,
    << "create_task", [NoParams EXCEPT !["title"] = "x",
                                       !["priority"] = "TaskPriority.HIGH"] >>,
    << "update_task", NoParams >>,
    << "update_task", [NoParams EXCEPT !["task_id"] = "t1"] >>,
    << "update_task", [NoParams EXCEPT !["task_id"] = "t1", !["status"] = "done"] >>,
    << "update_task", [NoParams EXCEPT !["task_id"] = "t1", !["status"] = "bogus"] >>,
    << "update_task", [NoParams EXCEPT !["task_id"] = "t1", !["priority"] = "bogus"] >>,
    << "update_task", [NoParams EXCEPT !["task_id"] = "t1", !["title"] = "y"] >>,
    << "update_task", [NoParams EXCEPT !["task_id"] = "t1", !["description"] = "d"] >>,
    << "update_task", [NoParams EXCEPT !["task_id"] = "t9", !["status"] = "done"] >>,
    << "delete_task", NoParams >>,
    << "delete_task", [NoParams EXCEPT !["task_id"] = "t1"] >>,
    << "get_task_details", NoParams >>,
    << "get_task_details", [NoParams EXCEPT !["task_id"] = "t1"] >>,
    << "list_tasks", NoParams >>,
    << "list_tasks", [NoParams EXCEPT !["status"] = "done"] >>,
    << "get_stats", NoParams >>,
    << "github_query", [NoParams EXCEPT !["title"] = "x"] >>,
    << "bogus_action", NoParams >>,
    << "bogus_action", [NoParams EXCEPT !["title"] = "x"] >> }

\* the rows the task page creates: user, title, priority
PageInputs ==
  { << "alice", "x", "medium" >>,
    << "alice", "Update docs", "medium" >>,
    << "alice", "new task x", "medium" >>,
    << "bob", "x", "medium" >> }

\* what the user types into the assistant page
ChatMessages == {"hi", "add task x"}

\* the credential dictionaries handed to the vault
Credentials ==
  { EmptyDict,
    PyDict(<< Item("token", PyStr("abc")) >>),
    PyDict(<< Item("access_token", PyStr("ghp_1")), Item("user", PyStr("")) >>),
    PyDict(<< Item("password", PyStr("a\"b")) >>),
    PyDict(<< Item("path", PyStr("c:\\keys")) >>),
    PyDict(<< Item("port", PyInt("8080")), Item("tls", PyBool("True")),
              Item("proxy", PyNone) >>),
    PyDict(<< Item("oauth", PyDict(<< Item("token", PyStr("t")),
                                      Item("scopes", PyList(<< PyStr("repo"),
                                                               PyStr("user") >>)) >>)),
              Item("extra", EmptyDict), Item("hosts", PyList(<< >>)) >>),
    PyDict(<< Item("scopes", PyTuple(<< PyStr("repo"), PyStr("user") >>)) >>),
    PyDict(<< IntItem("1", PyStr("a")) >>),
    PyDict(<< Item("key", PyBytes("k")) >>) }

\* GitHub questions that need the GitHub API
VendorCommands ==
  {"list repos", "show PRs for facebook/react", "show issues for facebook/react",
   "show commits for facebook/react", "list branches for facebook/react",
   "repo info for facebook/react"}

\* GitHub questions typed into the chat
GitHubCommands == {"show PRs for facebook/react", "list repos"}

\* first replies of the model to a GitHub question
GitHubReplies ==
  { "FUNCTION_CALL: list_pull_requests(owner=\"facebook\", repo=\"react\")",
    "FUNCTION_CALL: list_github_repos()",
    "FUNCTION_CALL: list_commits(limit=\"x\")" }

\* the integrations added on the integrations page: << user, type, credentials >>
IntegrationInputs ==
  { << "alice", "github", PyDict(<< Item("token", PyStr("abc")) >>) >>,
    << "alice", "github", PyDict(<< Item("access_token", PyStr("")),
                                   Item("user", PyStr("u")) >>) >>,
    << "bob", "github", PyDict(<< Item("access_token", PyStr("ghp_1")) >>) >>,
    << "alice", "slack", PyDict(<< Item("token", PyStr("abc")) >>) >> }

\* the values of GITHUB_TOKEN a process is started with
EnvironTokens == {None, "", "ghp_env"}

\* commands typed again and again
RerunCommands ==
  {"delete task x", "mark task x as done", "create task: x urgent", "list tasks"}

\* the times and initialization vectors of the tokens
Nonces == {"n1", "n2", "n3"}

\* what is sent to OllamaChatService.chat
Chat1Messages == {"hi", "add task x", "stats"}

\* the calls of OllamaChatService.chat: the user and the message
Chat1Inputs ==
  { << "alice", "hi" >>, << "alice", "add task x" >>, << "alice", "stats" >>,
    << None, "add task x" >> }

\* the contexts handed to chat: none, the list of task dictionaries, the dictionary
\* of get_full_app_context
ContextKinds == {"none", "list", "page"}

\* replies of the model to the first request
FirstReplies ==
  { "Hello!",
    "Use FUNCTION_CALL: name(key) to call",
    "FUNCTION_CALL: create_task(title=\"x\", priority=\"high\")",
    "Sure. function_call:create_task(title='Y' priority=\"bogus\") done",
    "FUNCTION_CALL: create_task(priority=\"high\")",
    "FUNCTION_CALL: create_task(title=\" \")",
    "FUNCTION_CALL: list_tasks()",
    "FUNCTION_CALL: list_github_repos()",
    "FUNCTION_CALL: get_recommendations()",
    "FUNCTION_CALL: list_tasks() FUNCTION_CALL: create_task(title=\"z\")" }

\* replies of the model to the formatting request
SecondReplies == {"Done.", "FUNCTION_CALL: create_task(title=\"again\")"}

(***************************************************************************)
(* State.                                                                  *)
(*   tasks    the rows of the tasks table                                  *)
(*   now      the logical clock: the stamp of the next database write      *)
(*   last     the last operation: its input, what it returned or raised,   *)
(*            the handlers it ran and the table it started from            *)
(*   intents  the matching stage of detect_and_execute_action tabulated    *)
(*            for the texts of the model; it never changes                 *)
(*   history  conversation_history of the chat service                     *)
(*   turn     the call of chat in progress or just ended: its phase, the   *)
(*            requests sent to the model, the functions executed, the      *)
(*            answer and the table it started from                         *)
(*   chat1    the OllamaChatService object: its conversation_history and   *)
(*            the call of chat in progress or just ended                   *)
(*   integrations  the rows of the integrations table, each with the token *)
(*            its stored credentials decrypt to                            *)
(*   vault    the last use of the credential vault                         *)
(*   environ  os.environ of the process: the value of GITHUB_TOKEN         *)
(*   inflight the call of requests.get/post the process is inside of       *)
(*   command  the chat delete or status command that has listed the tasks  *)
(*            of its user and has not yet called the mutation              *)
(***************************************************************************)
VARIABLES tasks, now, last, intents, history, turn, chat1, integrations, vault,
          environ, inflight, command

vars == << tasks, now, last, intents, history, turn, chat1, integrations, vault,
           environ, inflight, command >>

\* number of calls of chat in a behaviour
MaxTurns == 2

NoTurn ==
  [n |-> 0, phase |-> "idle", user |-> "", message |-> "", requests |-> << >>,
   executed |-> << >>, call |-> NoCall, result |-> NoResult, reply |-> "",
   answer |-> "", kind |-> "", trace |-> << >>, before |-> {},
   history_before |-> << >>, inner |-> "", context |-> NoContext,
   api_requests |-> 0]

NoOp ==
  [op |-> "init", user |-> "", text |-> "", action |-> "", params |-> NoParams,
   intent |-> NoIntent, handlers |-> << >>, target |-> None, inner |-> "",
   raised |-> "",
   detected |-> FALSE, success |-> FALSE, message |-> "", before |-> {},
   context |-> NoContext, prompt |-> "", api_requests |-> 0,
   stats |-> [total |-> 0, todo |-> 0, in_progress |-> 0, done |-> 0, blocked |-> 0,
              urgent |-> 0]]

\* number of calls of OllamaChatService.chat in a behaviour
MaxTurns1 == 4

NoChat1 ==
  [conversation_history |-> << >>, n |-> 0, phase |-> "idle", message |-> "",
   context |-> NoContext, requests |-> << >>, answer |-> "", kind |-> "",
   handlers |-> << >>, before |-> << >>]

NoVault ==
  [op |-> "init", x |-> EmptyDict, raised |-> "", c |-> NoToken, y |-> EmptyDict,
   c2 |-> NoToken, y2 |-> EmptyDict]

\* no chat command is between its listing and its mutation
NoCommand ==
  [phase |-> "none", user |-> "", query |-> "", target |-> None, seen |-> {},
   at_mutation |-> {}]

\* no request to the GitHub API is in flight
NoRequest == [state |-> "none", user |-> "", query |-> "", outcome |-> ""]

\* the state after start-up, with the matching stage tabulated for texts, in a
\* process started with GITHUB_TOKEN set to token
InitIn(texts, token) ==
  /\ tasks = {}
  /\ now = 1
  /\ last = NoOp
  /\ intents = [q \in texts |-> match(q)]
  /\ history = << >>
  /\ turn = NoTurn
  /\ chat1 = NoChat1
  /\ integrations = {}
  /\ vault = NoVault
  /\ environ = [GITHUB_TOKEN |-> token]
  /\ inflight = NoRequest
  /\ command = NoCommand

\* the state after start-up in a process without GITHUB_TOKEN
InitWith(texts) == InitIn(texts, None)

Init == InitWith(Queries)

\* a write is possible while the clock has not reached its bound
ClockAllows(r) == r.now <= MaxClock + 1

(***************************************************************************)
(* frontend/pages/tasks_page.py: save_task of the "Create New Task" dialog *)
(***************************************************************************)
save_task(user_id, title, priority) ==
  LET r == TaskService_create_task(tasks, now, user_id, title, "", priority)
  IN  /\ title # ""
      /\ ClockAllows(r)
      /\ tasks' = r.tasks
      /\ now' = r.now
      /\ last' = [NoOp EXCEPT !.op = "save_task", !.user = user_id, !.text = title,
                              !.raised = r.raised, !.before = tasks]
      /\ UNCHANGED << intents, history, turn, chat1, integrations, environ, command, inflight, vault >>

(***************************************************************************)
(* AIActionHandler.detect_and_execute_action(query, context)               *)
(***************************************************************************)
\* the loop without its break: the last task of the listing that matches
FindTask_last(listing, identifier) ==
  LET hits == {i \in 1..Len(listing) :
                 \/ listing[i].id = identifier
                 \/ Lower(listing[i].title) = identifier}
  IN  IF hits = {} THEN None
      ELSE listing[CHOOSE i \in hits : \A j \in hits : j <= i].id

\* for task in tasks: if task.get('id') == identifier or
\*                       task.get('title', '').lower() == identifier: ...; break
FindTask(listing, identifier) ==
  LET hits == {i \in 1..Len(listing) :
                 \/ listing[i].id = identifier
                 \/ Lower(listing[i].title) = identifier}
  IN  IF hits = {} THEN None ELSE listing[Min(hits)].id

\* GitHubIntegrationService(user_id=user_id): the credentials are loaded when the
\* object is made; outcome is what a request to the API would give
GitHubIntegrationService(user_id, outcome) ==
  [enabled |-> load_credentials(integrations, environ, user_id), outcome |-> outcome]

\* a handler that keeps the task of its previous match and acts on it again
DetectBranch_sticky(user_id, query, intent, fails, T, clk) ==
  IF intent.family \in {"delete", "status"} /\ last.op = "detect" /\ last.target # None
  THEN [handlers |-> << IF intent.family = "delete" THEN "delete_task"
                        ELSE "update_task" >>,
        target |-> last.target,
        result |-> IF intent.family = "delete"
                   THEN delete_task_handler(user_id,
                          [NoParams EXCEPT !["task_id"] = last.target], T, clk)
                   ELSE update_task_handler(user_id,
                          [NoParams EXCEPT !["task_id"] = last.target,
                                           !["status"] = intent.status], T, clk)]
  ELSE [handlers |-> << >>, target |-> None,
        result |-> Returns(Unchanged(T, clk), FALSE, None)]

\* what the branch selected by the intent does: [handlers, target, result]
DetectBranch(user_id, query, intent, fails, T, clk) ==
  LET listing == TaskService_get_user_tasks(T, user_id)
      found   == FindTask(listing, intent.identifier)
      said(message) == Returns(Unchanged(T, clk), TRUE, message)
  IN  CASE intent.family = "create" ->
             IF intent.title = ""
             THEN [handlers |-> << >>, target |-> None,
                   result |-> said("Please provide a task name/title.")]
             ELSE [handlers |-> << "create_task" >>, target |-> None,
                   result |-> create_task_handler(user_id,
                                [NoParams EXCEPT !["title"] = intent.title,
                                                 !["priority"] = intent.priority],
                                T, clk)]
        [] intent.family = "delete" ->
             IF found = None
             THEN [handlers |-> << >>, target |-> None,
                   result |-> said("Task not found. Use exact title or task ID.")]
             ELSE [handlers |-> << "delete_task" >>, target |-> found,
                   result |-> delete_task_handler(user_id,
                                [NoParams EXCEPT !["task_id"] = found], T, clk)]
        [] intent.family = "status" ->
             IF found = None
             THEN [handlers |-> << >>, target |-> None,
                   result |-> said("Task not found.")]
             ELSE [handlers |-> << "update_task" >>, target |-> found,
                   result |-> update_task_handler(user_id,
                                [NoParams EXCEPT !["task_id"] = found,
                                                 !["status"] = intent.status],
                                T, clk)]
        [] intent.family = "none" ->
             [handlers |-> << >>, target |-> None,
              result |-> Returns(Unchanged(T, clk), FALSE, None)]
        \* success, message = self._handle_github_query({'query': query})
        [] intent.family = "github_query" ->
             [handlers |-> << "github_query" >>, target |-> None,
              result |-> handle_query(
                           GitHubIntegrationService(user_id,
                                                    IF fails THEN "raises" ELSE "ok"),
                           query, T, clk)]
        [] OTHER ->
             [handlers |-> << intent.family >>, target |-> None,
              result |-> read_only_handler(intent.family, fails, T, clk)]

\* the step of detect_and_execute_action once its branch b has given result r
detected_with(user_id, query, intent, b, r) ==
      /\ ClockAllows(r)
      /\ tasks' = r.tasks
      /\ now' = r.now
      /\ last' = [NoOp EXCEPT !.op = "detect", !.user = user_id, !.text = query,
                              !.intent = intent, !.handlers = b.handlers,
                              !.target = b.target, !.inner = r.raised,
                              !.raised = r.raised,
                              \* return True, message  /  return False, None
                              !.detected = (r.raised = "" /\ intent.family # "none"),
                              !.success = r.success,
                              !.message = r.message, !.api_requests = r.api,
                              !.before = tasks]
      /\ UNCHANGED << intents, history, turn, chat1, integrations, environ, command, inflight, vault >>

detected_branch(user_id, query, intent, b) ==
  detected_with(user_id, query, intent, b, b.result)

detect_and_execute_action(user_id, query, fails) ==
  detected_branch(user_id, query, intents[query],
                  DetectBranch(user_id, query, intents[query], fails, tasks, now))

(***************************************************************************)
(* AIActionHandler.execute_action(action, params) as an operation          *)
(***************************************************************************)
ExecuteAction(user_id, action, params, fails) ==
  LET r == execute_action(user_id, action, params, fails, tasks, now)
      h == CallHandler(action, user_id, params, fails, tasks, now)
  IN  /\ ClockAllows(r)
      /\ tasks' = r.tasks
      /\ now' = r.now
      /\ last' = [NoOp EXCEPT !.op = "execute", !.user = user_id, !.action = action,
                              !.params = params,
                              !.handlers = IF action \in actions THEN << action >>
                                           ELSE << >>,
                              \* the exception that left the handler
                              !.inner = IF action \in actions THEN h.raised ELSE "",
                              !.raised = r.raised, !.success = r.success,
                              !.message = r.message, !.before = tasks]
      /\ UNCHANGED << intents, history, turn, chat1, integrations, environ, command, inflight, vault >>

(***************************************************************************)
(* A GitHub question on the pattern path, in the steps that the request to *)
(* the GitHub API cuts it into.  requests.get(url, headers=..., params=...) *)
(* is called without a timeout: it returns when the response has arrived   *)
(* or the connection has failed, and not before.                           *)
(***************************************************************************)
\* handle_query reaches a method of the service that sends a request
sends_request(github, query) ==
  /\ github.enabled
  /\ handle_query_branch(Lower(query)) \notin {"search", "help"}
  /\ handle_query_branch(Lower(query)) = "repos" \/ extract_repo_found(query)

\* detect_and_execute_action is entered and the handler calls requests.get
GitHubRequestSent(user_id, query) ==
  /\ inflight.state = "none"
  /\ intents[query].family = "github_query"
  /\ sends_request(GitHubIntegrationService(user_id, "ok"), query)
  /\ inflight' = [NoRequest EXCEPT !.state = "sent", !.user = user_id,
                                   !.query = query]
  /\ last' = [NoOp EXCEPT !.op = "detect_entered", !.user = user_id,
                          !.text = query, !.intent = intents[query],
                          !.before = tasks]
  /\ UNCHANGED << tasks, now, intents, history, turn, chat1, integrations, environ, command,
                  vault >>

\* the vendor answers, or the connection fails
GitHubResponse(outcome) ==
  /\ inflight.state = "sent"
  /\ inflight' = [inflight EXCEPT !.state = "responded", !.outcome = outcome]
  /\ UNCHANGED << tasks, now, last, intents, history, turn, chat1, integrations,
                  environ, command, vault >>

\* requests.get returns or raises, and the turn ends with the message of the handler
returned_with(r) ==
  /\ inflight.state = "responded"
  /\ inflight' = NoRequest
  /\ last' = [NoOp EXCEPT !.op = "detect", !.user = inflight.user,
                          !.text = inflight.query,
                          !.intent = intents[inflight.query],
                          !.handlers = << "github_query" >>,
                          !.detected = TRUE, !.success = r.success,
                          !.message = r.message, !.api_requests = r.api,
                          !.before = tasks]
  /\ UNCHANGED << tasks, now, intents, history, turn, chat1, integrations, environ, command,
                  vault >>

GitHubRequestReturns ==
  returned_with(handle_query(GitHubIntegrationService(inflight.user, inflight.outcome),
                             inflight.query, tasks, now))

(***************************************************************************)
(* backend/services/jira_sync_service.py:                                  *)
(* JiraSyncService.sync_jira_issues_to_tasks(user_id, integration_id).     *)
(* issues is what get_assigned_issues returns: the issues Jira reports, or *)
(* the empty list when the request fails.  An issue is                     *)
(* [key, summary, status, priority, type, url].                            *)
(***************************************************************************)
jira_priority_map(priority) ==
  CASE priority = "Highest" -> "URGENT"
    [] priority = "High" -> "HIGH"
    [] priority = "Medium" -> "MEDIUM"
    [] priority \in {"Low", "Lowest"} -> "LOW"
    [] OTHER -> "MEDIUM"

jira_status_map(status) ==
  CASE status \in {"To Do", "Open"} -> "TODO"
    [] status = "In Progress" -> "IN_PROGRESS"
    [] status \in {"Done", "Closed", "Resolved"} -> "DONE"
    [] OTHER -> "TODO"

jira_title(issue) == "[" \o issue.key \o "] " \o issue.summary

jira_description(issue) ==
  "Jira Issue: " \o issue.url \o "\nStatus: " \o issue.status
    \o "\nPriority: " \o issue.priority \o "\nType: " \o issue.type

\* the body of the loop for one issue: [tasks, now, created]
sync_issue(T, clk, user_id, issue) ==
  LET existing == {t \in T : /\ t.user_id = user_id
                             /\ t.source = "JIRA"
                             /\ t.source_id = issue.key}
      status == jira_status_map(issue.status)
  IN  IF existing # {}
      THEN LET existing_task == CHOOSE t \in existing :
                                  \A u \in existing : t.created_at <= u.created_at
               updated == [existing_task EXCEPT
                             !.title = jira_title(issue),
                             !.description = jira_description(issue),
                             !.priority = jira_priority_map(issue.priority),
                             !.updated_at = clk,
                             \* Update status only if not manually completed
                             !.status = IF existing_task.status # "DONE"
                                           \/ status # "DONE"
                                        THEN status ELSE @]
           IN  [tasks |-> (T \ {existing_task}) \cup {updated}, now |-> clk,
                created |-> FALSE]
      ELSE LET task == [id |-> generate_uuid(clk), user_id |-> user_id,
                        title |-> jira_title(issue),
                        description |-> jira_description(issue),
                        status |-> status,
                        priority |-> jira_priority_map(issue.priority),
                        source |-> "JIRA", source_id |-> issue.key,
                        completed_at |-> 0, created_at |-> clk, updated_at |-> clk]
           IN  [tasks |-> T \cup {task}, now |-> clk + 1, created |-> TRUE]

RECURSIVE sync_issues(_, _, _, _, _, _, _)
RECURSIVE sync_issues_step(_, _, _, _, _, _)
\* for issue in issues: ...; the counts are created_count and updated_count
sync_issues(T, clk, user_id, issues, i, created_count, updated_count) ==
  IF i > Len(issues)
  THEN [tasks |-> T, now |-> clk, created |-> created_count,
        updated |-> updated_count,
        message |-> "Synced " \o str_int(Len(issues)) \o " Jira issues: "
                      \o str_int(created_count) \o " created, "
                      \o str_int(updated_count) \o " updated"]
  ELSE sync_issues_step(sync_issue(T, clk, user_id, issues[i]), user_id, issues, i,
                        created_count, updated_count)

sync_issues_step(r, user_id, issues, i, created_count, updated_count) ==
  sync_issues(r.tasks, r.now, user_id, issues, i + 1,
              IF r.created THEN created_count + 1 ELSE created_count,
              IF r.created THEN updated_count ELSE updated_count + 1)

not_synced(T, clk, message) ==
  [tasks |-> T, now |-> clk, created |-> 0, updated |-> 0, message |-> message]

sync_jira_issues_to_tasks(I, T, clk, user_id, integration_id, issues) ==
  LET integration == {i \in I : i.id = integration_id}
  IN  IF integration = {} THEN not_synced(T, clk, "Integration not found")
      ELSE IF \E i \in integration : i.type # "jira"
      THEN not_synced(T, clk, "Not a Jira integration")
      ELSE IF ~Truthy(IntegrationService_get_integration_credentials(I, integration_id))
      THEN not_synced(T, clk, "No credentials found")
      ELSE IF Len(issues) = 0 THEN not_synced(T, clk, "No issues found in Jira")
      ELSE sync_issues(T, clk, user_id, issues, 1, 0, 0)

(***************************************************************************)
(* frontend/pages/tasks_page.py: the "Sync from Jira" button and the check *)
(* box of a task.                                                          *)
(***************************************************************************)
\* IntegrationService.get_user_integrations(user_id, type='jira'): newest first
jira_integrations(I, user_id) ==
  {i \in I : i.created_by = user_id /\ i.type = "jira"}

synced_with(user_id, r) ==
  /\ ClockAllows(r)
  /\ tasks' = r.tasks
  /\ now' = r.now
  /\ last' = [NoOp EXCEPT !.op = "sync_from_jira", !.user = user_id,
                          !.message = r.message, !.success = TRUE,
                          !.before = tasks]
  /\ UNCHANGED << intents, history, turn, chat1, integrations, environ, command,
                  inflight, vault >>

\* sync_from_jira(): returns early without a Jira integration of the user, and
\* when the newest one is not active
sync_from_jira(user_id, issues) ==
  /\ jira_integrations(integrations, user_id) # {}
  /\ \E jira_integration \in jira_integrations(integrations, user_id) :
       /\ \A i \in jira_integrations(integrations, user_id) :
            i.created_at <= jira_integration.created_at
       /\ Lower(jira_integration.status) = "active"
       /\ synced_with(user_id,
                      sync_jira_issues_to_tasks(integrations, tasks, now, user_id,
                                                jira_integration.id, issues))

\* toggle_task_status(task_id, is_done)
toggled_with(task_id, is_done, r) ==
  /\ ClockAllows(r)
  /\ tasks' = r.tasks
  /\ now' = r.now
  /\ last' = [NoOp EXCEPT !.op = "toggle_task_status", !.target = task_id,
                          !.raised = r.raised, !.success = is_done,
                          !.before = tasks]
  /\ UNCHANGED << intents, history, turn, chat1, integrations, environ, command,
                  inflight, vault >>

toggle_task_status(task_id, is_done) ==
  toggled_with(task_id, is_done,
               TaskService_update_task(tasks, now, task_id, None, None,
                                       IF is_done THEN "done" ELSE "todo", None))

(***************************************************************************)
(* A chat delete or status command, in the two database sessions it is     *)
(* made of.  TaskService.get_user_tasks opens a session with get_db() and  *)
(* commits when the with block is left; _delete_task / _update_task call   *)
(* TaskService.delete_task / update_task, which open a session of their    *)
(* own.  The database is shared with every other session of the engine.    *)
(***************************************************************************)
\* tasks = TaskService.get_user_tasks(self.user_id); the loop finds task_id
CommandLookup(user_id, query) ==
  LET found == FindTask(TaskService_get_user_tasks(tasks, user_id),
                        intents[query].identifier)
  IN  /\ command.phase \in {"none", "done"}
      /\ intents[query].family \in {"delete", "status"}
      /\ found # None
      /\ command' = [NoCommand EXCEPT !.phase = "listed", !.user = user_id,
                                      !.query = query, !.target = found,
                                      !.seen = tasks]
      /\ last' = [NoOp EXCEPT !.op = "detect_entered", !.user = user_id,
                              !.text = query, !.intent = intents[query],
                              !.target = found, !.before = tasks]
      /\ UNCHANGED << tasks, now, intents, history, turn, chat1, integrations, environ,
                      inflight, vault >>

\* self._delete_task({'task_id': task_id}) /
\* self._update_task({'task_id': task_id, 'status': status}), on the rows that
\* the database holds when the call is made
mutation_result(intent, user_id, task_id, T, clk) ==
  IF intent.family = "delete"
  THEN delete_task_handler(user_id, [NoParams EXCEPT !["task_id"] = task_id], T, clk)
  ELSE update_task_handler(user_id, [NoParams EXCEPT !["task_id"] = task_id,
                                                     !["status"] = intent.status],
                           T, clk)

mutated_with(r) ==
  /\ command.phase = "listed"
  /\ ClockAllows(r)
  /\ tasks' = r.tasks
  /\ now' = r.now
  /\ command' = [command EXCEPT !.phase = "done", !.at_mutation = tasks]
  /\ last' = [NoOp EXCEPT !.op = "detect_command", !.user = command.user,
                          !.text = command.query,
                          !.intent = intents[command.query],
                          !.target = command.target, !.inner = r.raised,
                          !.raised = r.raised, !.detected = (r.raised = ""),
                          !.success = r.success, !.message = r.message,
                          !.before = command.seen]
  /\ UNCHANGED << intents, history, turn, chat1, integrations, environ, inflight,
                  vault >>

CommandMutate ==
  mutated_with(mutation_result(intents[command.query], command.user, command.target,
                               tasks, now))

(***************************************************************************)
(* The integrations page: an integration is added, and its status is set.  *)
(* Both happen between the turns of the chat.                              *)
(***************************************************************************)
\* number of rows of the integrations table
MaxIntegrations == 1

CreateIntegration(user_id, type, name, credentials, nonce) ==
  LET r == IntegrationService_create_integration(integrations, now, user_id, type,
                                                 name, credentials, nonce)
  IN  /\ turn.phase \in {"idle", "terminal"}
      /\ Cardinality(integrations) < MaxIntegrations
      /\ ClockAllows(r)
      /\ integrations' = r.integrations
      /\ now' = r.now
      /\ last' = [NoOp EXCEPT !.op = "create_integration", !.user = user_id,
                              !.raised = r.raised, !.before = tasks]
      /\ UNCHANGED << tasks, intents, history, turn, chat1, environ, command, inflight, vault >>

UpdateIntegration(integration_id, status) ==
  LET r == IntegrationService_update_integration(integrations, integration_id, status)
  IN  /\ turn.phase \in {"idle", "terminal"}
      /\ integrations' = r.integrations
      /\ last' = [NoOp EXCEPT !.op = "update_integration", !.raised = r.raised,
                              !.before = tasks]
      /\ UNCHANGED << tasks, now, intents, history, turn, chat1, environ, command, inflight, vault >>

(***************************************************************************)
(* OllamaChatServiceV2.chat(message, context, user_id), in the steps that  *)
(* the two requests to the model cut it into.                              *)
(***************************************************************************)
\* chat is entered: the first request is sent
ChatStart(user_id, message, context) ==
  /\ turn.phase \in {"idle", "terminal"}
  /\ turn.n < MaxTurns
  /\ turn' = [NoTurn EXCEPT !.n = turn.n + 1, !.phase = "AWAITING_INTENT",
                            !.user = user_id,
                            !.message = message, !.context = context,
                            !.requests = << first_messages(history, message,
                                                           context) >>,
                            !.trace = << "AWAITING_INTENT" >>, !.before = tasks,
                            !.history_before = history]
  /\ UNCHANGED << tasks, now, last, intents, history, chat1, integrations, environ, command, inflight, vault >>

(***************************************************************************)
(* The counts the action layer reports for a user: the snapshot of         *)
(* get_full_app_context() and the counts of _get_stats().                  *)
(***************************************************************************)
ReportCounts(user_id) ==
  /\ last' = [NoOp EXCEPT !.op = "report_counts", !.user = user_id,
                          !.context = get_full_app_context(tasks, integrations, user_id),
                          !.stats = get_stats_counts(tasks, user_id),
                          !.before = tasks]
  /\ UNCHANGED << tasks, now, intents, history, turn, chat1, integrations, environ, command, inflight, vault >>

(***************************************************************************)
(* The texts the two chat services build for the model from a message and  *)
(* a context: the system prompt of OllamaChatServiceV2 and the enhanced    *)
(* message of OllamaChatService.                                           *)
(***************************************************************************)
BuildTexts(message, context) ==
  /\ last' = [NoOp EXCEPT !.op = "build_texts", !.text = message,
                          !.context = context,
                          !.prompt = system_prompt(context),
                          !.message = enhanced_message(message, context),
                          !.before = tasks]
  /\ UNCHANGED << tasks, now, intents, history, turn, chat1, integrations, environ, command, inflight, vault >>

(***************************************************************************)
(* frontend/pages/mcp_page.py: get_ai_response(query) of the assistant     *)
(* page, whose chat service is ollama_chat_v2: the context is built and    *)
(* chat is called with it.                                                 *)
(***************************************************************************)
get_ai_response(user_id, query) ==
  ChatStart(user_id, query, get_full_app_context(tasks, integrations, user_id))

\* the step of chat once its function call is extracted and executed, with result r
FirstReplyWith(ai_response, function_call, r) ==
      /\ turn.phase = "AWAITING_INTENT"
      /\ IF ~function_call.found
         THEN /\ history' = history \o << Message("user", turn.message),
                                          Message("assistant", ai_response) >>
              /\ turn' = [turn EXCEPT !.phase = "terminal", !.reply = ai_response,
                                      !.answer = ai_response, !.kind = "ai_response",
                                      !.trace = @ \o << "terminal" >>]
              /\ UNCHANGED << tasks, now >>
         ELSE /\ ClockAllows(r)
              /\ tasks' = r.tasks
              /\ now' = r.now
              /\ turn' =
                   LET called == [turn EXCEPT !.reply = ai_response,
                                              !.call = function_call,
                                              !.executed = @ \o << function_call.function >>,
                                              !.result = r.result, !.inner = r.inner,
                                              !.api_requests = r.api]
                   IN  IF r.raised # ""
                       \* an exception out of _execute_function: except Exception of chat
                       THEN [called EXCEPT !.phase = "terminal", !.answer = "Error",
                                           !.kind = "error",
                                           !.trace = @ \o << "FUNCTION_PENDING",
                                                             "terminal" >>]
                       ELSE [called EXCEPT !.phase = "FORMATTING",
                                           !.requests = @ \o << followup_messages(
                                                          turn.requests[1], ai_response,
                                                          r.result) >>,
                                           !.trace = @ \o << "FUNCTION_PENDING",
                                                             "FORMATTING" >>]
              /\ UNCHANGED history
      /\ UNCHANGED << last, intents, chat1, integrations, environ, command, inflight, vault >>

\* result = self._execute_function(function_call, user_id, context)
FirstReplyCalling(user_id, ai_response, function_call, github) ==
  FirstReplyWith(ai_response, function_call,
                 execute_function(function_call, user_id, github, tasks, now))

\* the first reply arrives: it is returned, or the function it names is executed
\* and the formatting request is sent
FirstReply(user_id, ai_response, outcome) ==
  FirstReplyCalling(user_id, ai_response, extract_function_call(ai_response),
                    GitHubIntegrationService(user_id, outcome))

\* the reply to the formatting request arrives and is returned
SecondReply(final_answer) ==
  /\ turn.phase = "FORMATTING"
  /\ history' = history \o << Message("user", turn.message),
                              Message("assistant", final_answer) >>
  /\ turn' = [turn EXCEPT !.phase = "terminal", !.answer = final_answer,
                          !.kind = "function_executed",
                          !.trace = @ \o << "terminal" >>]
  /\ UNCHANGED << tasks, now, last, intents, chat1, integrations, environ, command, inflight, vault >>

\* a request to the model raises: except Exception returns the error text
RequestFails ==
  /\ turn.phase \in {"AWAITING_INTENT", "FORMATTING"}
  /\ turn' = [turn EXCEPT !.phase = "terminal", !.answer = "Error", !.kind = "error",
                          !.trace = @ \o << "terminal" >>]
  /\ UNCHANGED << tasks, now, last, intents, history, chat1, integrations, environ, command, inflight, vault >>

(***************************************************************************)
(* OllamaChatService.chat(message, context, user_id), in the steps that    *)
(* the request to the model cuts it into.                                  *)
(***************************************************************************)
\* chat is entered: the action step runs and, unless it answers, the message is
\* stored and the request is sent
Chat1Start(user_id, message, context, fails) ==
  LET intent == intents[message]
      b == DetectBranch(user_id, message, intent, fails, tasks, now)
      r == b.result
      entered == [NoChat1 EXCEPT !.conversation_history = chat1.conversation_history,
                                 !.n = chat1.n + 1, !.message = message,
                                 !.context = context,
                                 !.before = chat1.conversation_history]
      stored == keep_last(chat1.conversation_history
                          \o << Message("user", enhanced_message(message, context)) >>)
      sent == [entered EXCEPT !.phase = "AWAITING", !.conversation_history = stored,
                              !.requests = << messages_to_send(stored) >>]
  IN  /\ chat1.phase \in {"idle", "terminal"}
      /\ chat1.n < MaxTurns1
      /\ IF user_id = None
         THEN /\ chat1' = sent
              /\ UNCHANGED << tasks, now >>
         ELSE /\ ClockAllows(r)
              /\ tasks' = r.tasks
              /\ now' = r.now
              /\ chat1' =
                   IF r.raised # ""
                   \* except Exception: the error text is returned
                   THEN [entered EXCEPT !.phase = "terminal", !.kind = "error",
                                        !.answer = "Ollama error",
                                        !.handlers = b.handlers]
                   ELSE IF intent.family # "none" /\ ~Falsy(r.message)
                   THEN [entered EXCEPT !.phase = "terminal",
                                        !.kind = "action_executed",
                                        !.answer = r.message, !.handlers = b.handlers]
                   ELSE [sent EXCEPT !.handlers = b.handlers]
      /\ UNCHANGED << last, intents, history, turn, integrations, environ, command, inflight, vault >>

\* the reply arrives: it is stored and returned
Reply1(ai_message) ==
  /\ chat1.phase = "AWAITING"
  /\ chat1' = [chat1 EXCEPT !.phase = "terminal", !.kind = "ai_response",
                            !.answer = ai_message,
                            !.conversation_history =
                               @ \o << Message("assistant", ai_message) >>]
  /\ UNCHANGED << tasks, now, last, intents, history, turn, integrations, environ, command, inflight, vault >>

\* the request to the model raises: except Exception returns the error text
Request1Fails ==
  /\ chat1.phase = "AWAITING"
  /\ chat1' = [chat1 EXCEPT !.phase = "terminal", !.kind = "error",
                            !.answer = "Ollama error"]
  /\ UNCHANGED << tasks, now, last, intents, history, turn, integrations, environ, command, inflight, vault >>

(***************************************************************************)
(* Uses of the credential vault: a dictionary is encrypted, the token is   *)
(* decrypted, the result is encrypted again and that token decrypted.      *)
(***************************************************************************)
VaultEncrypt(credentials, nonce) ==
  LET r == encrypt_credentials(credentials, nonce)
  IN  /\ vault' = [NoVault EXCEPT !.op = IF r.raised # "" THEN "raised" ELSE "encrypted",
                                  !.x = credentials, !.raised = r.raised,
                                  !.c = r.token]
      /\ UNCHANGED << tasks, now, last, intents, history, turn, chat1, integrations, environ, command, inflight >>

VaultDecrypt ==
  /\ vault.op = "encrypted"
  /\ vault' = [vault EXCEPT !.op = "decrypted", !.y = decrypt_credentials(vault.c)]
  /\ UNCHANGED << tasks, now, last, intents, history, turn, chat1, integrations, environ, command, inflight >>

VaultEncryptAgain(nonce) ==
  LET r == encrypt_credentials(vault.y, nonce)
  IN  /\ vault.op = "decrypted"
      /\ vault' = [vault EXCEPT !.op = IF r.raised # "" THEN "raised" ELSE "encrypted again",
                                !.raised = r.raised, !.c2 = r.token]
      /\ UNCHANGED << tasks, now, last, intents, history, turn, chat1, integrations, environ, command, inflight >>

VaultDecryptAgain ==
  /\ vault.op = "encrypted again"
  /\ vault' = [vault EXCEPT !.op = "decrypted again",
                            !.y2 = decrypt_credentials(vault.c2)]
  /\ UNCHANGED << tasks, now, last, intents, history, turn, chat1, integrations, environ, command, inflight >>

(***************************************************************************)
(* Specifications.                                                         *)
(***************************************************************************)
PageCreate == \E in \in PageInputs : save_task(in[1], in[2], in[3])

\* a chat text handled by the handler of alice
Detect ==
  \E q \in Commands :
    \E fails \in FailChoices(intents[q].family) :
      detect_and_execute_action("alice", q, fails)

\* a chat text about tasks handled by the handler of alice
DetectTask ==
  \E q \in TaskCommands : detect_and_execute_action("alice", q, FALSE)

\* a call of the registry by the handler of alice
Execute ==
  \E in \in ExecInputs :
    \E fails \in FailChoices(in[1]) : ExecuteAction("alice", in[1], in[2], fails)

\* the texts of Queries, each handled on the empty table
DetectQuery ==
  /\ tasks = {}
  /\ \E q \in Queries :
       \E fails \in FailChoices(intents[q].family) :
         detect_and_execute_action("alice", q, fails)

\* the assistant page: a message of alice
Chat == \E query \in ChatMessages : get_ai_response("alice", query)

ModelReplies ==
  \E ai_response \in FirstReplies :
    \E outcome \in (IF extract_function_call(ai_response).function \in GitHubFunctions
                    THEN GitHubOutcomes ELSE {"ok"}) :
      FirstReply("alice", ai_response, outcome)

ModelFormats == \E final_answer \in SecondReplies : SecondReply(final_answer)

\* the context of a kind for alice, built from the tables T and I
context_of(kind, T, I) ==
  CASE kind = "list" -> list_context(TaskService_get_user_tasks(T, "alice"))
    [] kind = "page" -> get_full_app_context(T, I, "alice")
    [] OTHER -> NoContext

\* calls of OllamaChatService.chat, with and without a user
Chat1 ==
  \E in \in Chat1Inputs, kind \in ContextKinds :
    \E fails \in FailChoices(intents[in[2]].family) :
      Chat1Start(in[1], in[2], context_of(kind, tasks, integrations), fails)

Model1Replies == \E ai_message \in {"Hello!"} : Reply1(ai_message)

NextChat1 == Chat1 \/ Model1Replies \/ Request1Fails

SpecChat1 == InitWith(Chat1Messages) /\ [][NextChat1]_vars

\* the texts built for a message and a context of each kind
Build ==
  \E message \in ChatMessages, kind \in ContextKinds :
    BuildTexts(message, context_of(kind, tasks, integrations))

\* the task page and the texts for the model
NextTexts == PageCreate \/ Build

SpecTexts == InitWith({}) /\ [][NextTexts]_vars

\* the counts reported for alice
Report == ReportCounts("alice")

\* the task page, the pattern path and the reported counts
NextCounts == PageCreate \/ DetectTask \/ Report

SpecCounts == InitWith(TaskCommands) /\ [][NextCounts]_vars

Encrypt == \E credentials \in Credentials, nonce \in Nonces :
             VaultEncrypt(credentials, nonce)

EncryptAgain == \E nonce \in Nonces : VaultEncryptAgain(nonce)

\* the credential vault
NextVault == Encrypt \/ VaultDecrypt \/ EncryptAgain \/ VaultDecryptAgain

SpecVault == InitWith({}) /\ [][NextVault]_vars

\* the integrations page
Configure ==
  \E input \in IntegrationInputs :
    CreateIntegration(input[1], input[2], input[2], input[3], "n1")

SetStatus ==
  \E i \in integrations, status \in {"active", "error"} :
    UpdateIntegration(i.id, status)

\* a GitHub question on the pattern path, and on the assistant page
AskGitHub ==
  \E query \in GitHubCommands, fails \in BOOLEAN :
    detect_and_execute_action("alice", query, fails)

\* number of GitHub questions on the assistant page in a behaviour
MaxQuestions == 1

ChatGitHub ==
  /\ turn.n < MaxQuestions
  /\ get_ai_response("alice", "show PRs for facebook/react")

\* the model formats the result of the function
GitHubModelFormats == SecondReply("GitHub is not set up yet.")

GitHubModelReplies ==
  \E ai_response \in GitHubReplies, outcome \in GitHubOutcomes :
    FirstReply("alice", ai_response, outcome)

\* the integrations page and GitHub questions on both paths
NextGitHub == Configure \/ SetStatus \/ AskGitHub \/ ChatGitHub
              \/ GitHubModelReplies \/ GitHubModelFormats

SpecGitHub == (\E token \in EnvironTokens : InitIn(GitHubCommands, token))
              /\ [][NextGitHub]_vars

\* a command of alice on the pattern path
Rerun == \E q \in RerunCommands : detect_and_execute_action("alice", q, FALSE)

\* a turn of the assistant page that the model answers in words
Talk == get_ai_response("alice", "hi")

TalkReply == FirstReply("alice", "Hello!", "ok")

\* the task page, the pattern path and turns of the assistant page in between
NextRerun == PageCreate \/ Rerun \/ Talk \/ TalkReply

SpecRerun == InitWith(RerunCommands) /\ [][NextRerun]_vars

\* a GitHub question that needs the API, and what the vendor does with the request
AskVendor == \E query \in VendorCommands : GitHubRequestSent("alice", query)

VendorResponds == \E outcome \in GitHubOutcomes : GitHubResponse(outcome)

NextVendor == Configure \/ SetStatus \/ AskVendor \/ VendorResponds
              \/ GitHubRequestReturns

\* the process takes its steps; nothing makes the vendor answer
FairSpecVendor == (\E token \in EnvironTokens : InitIn(VendorCommands, token))
                  /\ [][NextVendor]_vars
                  /\ WF_vars(GitHubRequestReturns)

\* the two ways to name a task by its id in a delete command
DeleteById(id) == {"delete task id: " \o id, "delete task with id " \o id}

DeleteByIdCommands == DeleteById("t1") \cup DeleteById("t2")

AskDeleteById ==
  \E query \in DeleteByIdCommands : detect_and_execute_action("alice", query, FALSE)

NextDeleteById == PageCreate \/ AskDeleteById

SpecDeleteById == InitWith(DeleteByIdCommands) /\ [][NextDeleteById]_vars

\* two browser sessions of one process, each with a text of its own
SessionMessages == [user_id \in Users |-> IF user_id = "alice" THEN "hi" ELSE "add task x"]

SessionTurn == \E user_id \in Users : get_ai_response(user_id, SessionMessages[user_id])

SessionReply ==
  \E ai_response \in {"Hello!", "FUNCTION_CALL: list_tasks()",
                      "FUNCTION_CALL: create_task(title=\"x\", priority=\"high\")"} :
    FirstReply(turn.user, ai_response, "ok")

NextSessions == SessionTurn \/ SessionReply \/ ModelFormats \/ RequestFails

SpecSessions == InitWith(ChatMessages) /\ [][NextSessions]_vars

\* the action layer on the tasks of the page: chat commands and registry calls
NextActions == PageCreate \/ Rerun \/ Execute

SpecActions == InitWith(RerunCommands) /\ [][NextActions]_vars

\* what Jira reports: the status names of a workflow, one of them unknown to the
\* status map
JiraStatuses == {"To Do", "In Progress", "Done", "Blocked"}

JiraIssue(key, status) ==
  [key |-> key, summary |-> "fix login", status |-> status, priority |-> "High",
   type |-> "Bug", url |-> "https://jira.example.com/browse/" \o key]

\* the lists get_assigned_issues returns; the keys of a list are distinct
JiraIssueLists ==
  {<< JiraIssue("OPS-1", status) >> : status \in JiraStatuses}
    \cup {<< JiraIssue("OPS-1", "Done"), JiraIssue("OPS-2", "In Progress") >>, << >>}

JiraCredentials ==
  PyDict(<< Item("email", PyStr("a@b.c")), Item("api_token", PyStr("abc")) >>)

\* status commands of the chat that name a task by its id
JiraCommands == {"mark task t2 as done", "mark task t2 as in progress"}

ConfigureJira == CreateIntegration("alice", "jira", "jira", JiraCredentials, "n1")

SyncJira == \E issues \in JiraIssueLists : sync_from_jira("alice", issues)

Toggle == \E t \in tasks, is_done \in BOOLEAN : toggle_task_status(t.id, is_done)

AskStatus == \E query \in JiraCommands : detect_and_execute_action("alice", query, FALSE)

NextJira == ConfigureJira \/ SetStatus \/ SyncJira \/ Toggle \/ AskStatus \/ PageCreate

SpecJira == InitWith(JiraCommands) /\ [][NextJira]_vars

\* a chat command of one browser session and the task page of another
TwoStepCommands == {"delete task x", "mark task x as done", "mark task t1 to blocked"}

Lookup == \E user_id \in Users, q \in TwoStepCommands : CommandLookup(user_id, q)

NextTwoSteps == PageCreate \/ Lookup \/ CommandMutate

SpecTwoSteps == InitWith(TwoStepCommands) /\ [][NextTwoSteps]_vars

NextChat == Chat \/ ModelReplies \/ ModelFormats \/ RequestFails

SpecChat == InitWith(ChatMessages) /\ [][NextChat]_vars

Next == SyncJira \/ Toggle \/ ConfigureJira \/ Lookup \/ CommandMutate \/ PageCreate \/ Detect \/ DetectTask \/ Execute \/ DetectQuery
        \/ Chat \/ ModelReplies \/ ModelFormats \/ RequestFails
        \/ Chat1 \/ Model1Replies \/ Request1Fails \/ Build \/ Report
        \/ Encrypt \/ VaultDecrypt \/ EncryptAgain \/ VaultDecryptAgain
        \/ Configure \/ SetStatus \/ AskGitHub \/ ChatGitHub \/ GitHubModelReplies
        \/ GitHubModelFormats \/ Rerun \/ Talk \/ TalkReply
        \/ AskVendor \/ VendorResponds \/ GitHubRequestReturns

Spec == Init /\ [][Next]_vars

\* the task page and the pattern path
NextTasks == PageCreate \/ DetectTask

SpecTasks == InitWith(TaskCommands) /\ [][NextTasks]_vars

\* the pattern path alone, over the texts of all families
NextRoute == Detect

SpecRoute == InitWith(Commands) /\ [][NextRoute]_vars

\* the task page and the registry
NextRegistry == PageCreate \/ Execute

SpecRegistry == InitWith({}) /\ [][NextRegistry]_vars

\* the matching stage and the title cleanup
NextMatch == DetectQuery

SpecMatch == Init /\ [][NextMatch]_vars

TypeOK == /\ now \in 1..(MaxClock + 1)
          /\ \A t \in tasks : t.status \in TaskStatus /\ t.priority \in TaskPriority

(***************************************************************************)
(* Properties.                                                             *)
(***************************************************************************)
\* the rule families in the order of the specification, and their handlers
FamilyOrder ==
  << "create", "delete", "status", "list_tasks", "list_integrations", "get_stats",
     "predict_issues", "troubleshoot", "get_recommendations", "get_insights",
     "generate_dashboard", "orchestrate", "github_query" >>

HandlerOf(family) ==
  CASE family = "create" -> "create_task"
    [] family = "delete" -> "delete_task"
    [] family = "status" -> "update_task"
    [] OTHER -> family

\* some pattern of the family matches the lower-cased text
FamilyMatches(ql, family) ==
  CASE family = "create" ->
         \E k \in 1..Len(create_patterns) : Search(ql, create_patterns[k]).found
    [] family = "delete" ->
         \E k \in 1..Len(delete_patterns) : Search(ql, delete_patterns[k]).found
    [] family = "status" ->
         \/ SearchStatus(ql).found
         \/ \E k \in 1..Len(status_patterns_rest) :
              Search(ql, status_patterns_rest[k]).found
    [] OTHER ->
         \E k \in 1..Len(PhraseFamilies) :
           PhraseFamilies[k].handler = family /\ PhraseHit(ql, k)

MatchingFamilies(ql) == {k \in 1..Len(FamilyOrder) : FamilyMatches(ql, FamilyOrder[k])}

\* C1: a chat text is given to the first family of the fixed order whose pattern
\* matches it, and no handler but the one of that family runs, at most once;
\* a text that no family matches runs no handler and is not detected
C1_FirstFamilyOnly ==
  last.op = "detect" =>
    LET hits == MatchingFamilies(Lower(last.text))
    IN  IF hits = {}
        THEN last.intent.family = "none" /\ last.handlers = << >> /\ ~last.detected
        ELSE /\ last.intent.family = FamilyOrder[Min(hits)]
             /\ Len(last.handlers) <= 1
             /\ \A i \in 1..Len(last.handlers) :
                  last.handlers[i] = HandlerOf(FamilyOrder[Min(hits)])

\* a text that two families match, given to the deletion family, which ends in
\* its not-found message without running the listing handler
C1_Witness ==
  /\ last.op = "detect"
  /\ last.text = "delete task and list tasks"
  /\ last.intent.family = "delete"
  /\ last.handlers = << >>
  /\ last.message = "Task not found. Use exact title or task ID."

\* C2: when one of the specific creation patterns ("called"/"named", "by the
\* name", "with name") matches a text, the pattern that produces the captured
\* title is one of the specific patterns
C2_SpecificPatternFirst ==
  (/\ last.op = "detect"
   /\ \E k \in SpecificCreatePatterns :
        Search(Lower(last.text), create_patterns[k]).found)
  => last.intent.pattern \in SpecificCreatePatterns

\* the task a creation command has added to the table
Created == tasks \ last.before

\* the title text as the user typed it: the capture group taken from the query
TypedCapture == Strip(SubSeq(last.text, last.intent.start, Len(last.text)))

\* C3: the task created by a creation command has the priority of the keyword in
\* the title text and the title text as typed, in its letter case, without the
\* filler phrases and the priority keyword
C3_TitleAsTyped ==
  (last.op = "detect" /\ last.intent.family = "create" /\ Created # {})
  => \A t \in Created :
       /\ t.priority = infer_priority(Defillered(TypedCapture))
       /\ t.title = clean_title(TypedCapture)

\* C4: the title a creation command yields holds no filler token and no priority
\* keyword
FillerTokens == {"for me", "called", "named", "with the name", "by the name of"}

C4_NoFillerInTitle ==
  (last.op = "detect" /\ last.intent.family = "create")
  => \A tok \in FillerTokens \cup PriorityKeywords :
       ~Contains(Lower(last.intent.title), tok)

\* C5: a creation request whose title is missing or empty after cleanup gets a
\* "title required" message and writes no task, on the pattern path, through
\* execute_action and through the function-call executor
TitleRequiredMessages ==
  {"Please provide a task name/title.", "Title is required to create a task"}

NoTitle(title) == title \in {None, Absent} \/ clean_title(title) = ""

C5_TitleRequired ==
  /\ (last.op = "detect" /\ last.intent.family = "create" /\ last.intent.title = "")
     => (last.message \in TitleRequiredMessages /\ tasks = last.before)
  /\ (last.op = "execute" /\ last.action = "create_task"
      /\ NoTitle(last.params["title"]))
     => (~last.success /\ last.message \in TitleRequiredMessages
         /\ tasks = last.before)
  /\ (turn.phase = "FORMATTING" /\ turn.executed = << "create_task" >>
      /\ NoTitle(params_get(turn.call.parameters, "title", None)))
     => (~turn.result.success /\ turn.result.error \in TitleRequiredMessages
         /\ tasks = turn.before)

\* the task of a non-empty set that the listing shows first
ListedFirst(S) == CHOOSE t \in S : \A o \in S \ {t} : ListedBefore(t, o)

\* the tasks of the user of the last command that the identifier names
Named(identifier) ==
  {t \in last.before : /\ t.user_id = last.user
                       /\ (t.id = identifier \/ Lower(t.title) = identifier)}

\* the command texts "<verb> task <identifier> as|to done" and
\* "complete|finish task <identifier>"
DoneCommands(identifier) ==
  {v \o " task " \o identifier \o tail :
     v \in {"mark", "set", "move", "change"}, tail \in {" as done", " to done"}}
  \cup {v \o " task " \o identifier : v \in {"complete", "finish"}}

\* C6 as stated: a command to mark as done the task named by id or by title,
\* the task being TODO or IN_PROGRESS, leaves that task DONE with a completion
\* timestamp
C6_NamedTaskDone ==
  last.op = "detect" =>
    \A t \in last.before :
      (/\ t.user_id = last.user
       /\ t.status \in {"TODO", "IN_PROGRESS"}
       /\ Lower(last.text) \in DoneCommands(t.id) \cup DoneCommands(Lower(t.title)))
      => \E u \in tasks : u.id = t.id /\ u.status = "DONE" /\ u.completed_at # 0

\* C6: when a text is given to the status family with the status word "done" (or
\* the complete/finish shorthand) and tasks of the user have the captured
\* identifier as id or as lower-cased title, the first of them in listing order
\* is DONE with a completion timestamp afterwards and no other task is touched
C6_FirstNamedTaskDone ==
  (last.op = "detect" /\ last.intent.family = "status"
   /\ last.intent.status = "DONE" /\ Named(last.intent.identifier) # {})
  => LET f == ListedFirst(Named(last.intent.identifier))
     IN  /\ \E u \in tasks : u.id = f.id /\ u.status = "DONE" /\ u.completed_at # 0
         /\ \A t \in last.before : t.id # f.id => t \in tasks

\* two tasks of the user share the title; the command marks the first listed one
C6_Witness ==
  /\ last.op = "detect"
  /\ last.text = "mark task x as done"
  /\ Cardinality(Named("x")) = 2
  /\ \E u \in tasks : /\ u.id = ListedFirst(Named("x")).id
                      /\ u.status = "DONE" /\ u.completed_at # 0

\* C7: a deletion command deletes exactly the first task in listing order that
\* has the identifier as id or as title ignoring case and answers with the
\* success message; without such a task it answers not-found and the table is
\* unchanged
C7_DeleteFirstMatch ==
  (last.op = "detect" /\ last.intent.family = "delete")
  => IF Named(last.intent.identifier) # {}
     THEN /\ tasks = last.before \ {ListedFirst(Named(last.intent.identifier))}
          /\ last.raised = ""
          /\ last.message = "Task deleted successfully"
     ELSE /\ tasks = last.before
          /\ last.message = "Task not found. Use exact title or task ID."

\* the parameter every handler of the registry with a required parameter checks
RequiredParam ==
  [create_task |-> "title", delete_task |-> "task_id", update_task |-> "task_id",
   get_task_details |-> "task_id"]

\* C8: execute_action returns a (success, message) pair and raises nothing; an
\* unknown action, a missing required parameter and an exception inside the
\* handler each give success = False
C8_NeverRaises ==
  last.op = "execute" =>
    /\ last.raised = ""
    /\ last.success \in BOOLEAN
    /\ last.message # None
    /\ last.action \notin actions =>
         (~last.success /\ last.message = "Unknown action" /\ tasks = last.before)
    /\ (last.action \in DOMAIN RequiredParam
        /\ ~Has(last.params, RequiredParam[last.action]))
       => (~last.success /\ tasks = last.before)
    /\ last.inner # "" => (~last.success /\ last.message = "Action failed")

\* an exception left the handler and execute_action returned the failure pair
C8_Witness ==
  /\ last.op = "execute"
  /\ last.inner = "TypeError"
  /\ last.raised = ""
  /\ ~last.success
  /\ last.message = "Action failed"

\* C9: create_task or update_task called through execute_action with a priority
\* or a status that is no name of the enumeration stores MEDIUM, respectively
\* TODO, and succeeds
NotAName(params, key, names) == Has(params, key) /\ Upper(params[key]) \notin names

C9_NormalizeAndSucceed ==
  /\ (last.op = "execute" /\ last.action = "create_task"
      /\ ~Falsy(Get(last.params, "title", None))
      /\ NotAName(last.params, "priority", TaskPriority))
     => (last.success /\ \A t \in tasks \ last.before : t.priority = "MEDIUM")
  /\ (last.op = "execute" /\ last.action = "update_task"
      /\ \E t \in last.before : t.id = last.params["task_id"])
     => /\ NotAName(last.params, "status", TaskStatus)
           => (last.success /\ \A t \in tasks : t.id = last.params["task_id"]
                                                   => t.status = "TODO")
        /\ NotAName(last.params, "priority", TaskPriority)
           => (last.success /\ \A t \in tasks : t.id = last.params["task_id"]
                                                   => t.priority = "MEDIUM")

\* the reply holds a marker FUNCTION_CALL: <name>(<parameters>)
HasMarker(reply) == \E i \in 1..Len(reply) : MarkerAt(reply, i).found

\* the phases a call of chat may have gone through
ProtocolTraces ==
  { << "AWAITING_INTENT" >>,
    << "AWAITING_INTENT", "terminal" >>,
    << "AWAITING_INTENT", "FUNCTION_PENDING", "FORMATTING" >>,
    << "AWAITING_INTENT", "FUNCTION_PENDING", "FORMATTING", "terminal" >> }

\* C10: a call of chat sends one first request; a reply without a marker is
\* returned as it is, with no function executed and no second request; a reply
\* with a marker has one function executed and then one formatting request whose
\* last message is the user message "Function result: <json>", and the reply to
\* it is returned whatever it holds; no call sends more than two requests or
\* executes more than one function
C10_Protocol ==
  turn.phase # "idle" =>
    /\ turn.trace \in ProtocolTraces
    /\ Len(turn.requests) \in 1..2
    /\ Len(turn.executed) <= 1
    /\ turn.requests[1][Len(turn.requests[1])] = Message("user", turn.message)
    /\ turn.phase = "AWAITING_INTENT" =>
         (Len(turn.requests) = 1 /\ turn.executed = << >>)
    /\ (turn.phase = "terminal" /\ turn.kind = "ai_response") =>
         /\ ~HasMarker(turn.reply)
         /\ turn.answer = turn.reply
         /\ turn.executed = << >>
         /\ Len(turn.requests) = 1
         /\ tasks = turn.before
    /\ (turn.phase = "FORMATTING" \/ turn.kind = "function_executed") =>
         /\ HasMarker(turn.reply)
         /\ Len(turn.executed) = 1
         /\ Len(turn.requests) = 2
         /\ LET sent == turn.requests[2]
            IN  /\ SubSeq(sent, 1, Len(sent) - 2) = turn.requests[1]
                /\ sent[Len(sent) - 1] = Message("assistant", turn.reply)
                /\ sent[Len(sent)] =
                     Message("user", "Function result: " \o json_dumps(turn.result))
    /\ (turn.phase = "terminal" /\ turn.kind = "function_executed") =>
         turn.answer \in SecondReplies
    /\ (turn.phase = "terminal" /\ turn.kind = "error") =>
         (turn.answer = "Error" /\ (turn.executed = << >> <=> Len(turn.requests) = 1))

\* a call that executed a function and returned a second reply that itself holds
\* a marker, without executing anything more
C10_Witness ==
  /\ turn.phase = "terminal"
  /\ turn.kind = "function_executed"
  /\ HasMarker(turn.answer)
  /\ turn.executed = << "create_task" >>
  /\ Cardinality(tasks) = Cardinality(turn.before) + 1
\* the functions the system prompt lists as callable
PromptFunctions ==
  GitHubFunctions
  \cup {"create_task", "delete_task", "list_tasks", "update_task", "predict_issues",
        "troubleshoot", "get_recommendations", "get_dashboard", "list_integrations"}

\* C11: a first reply that calls a function listed in the system prompt has that
\* function executed, and the result sent for formatting is no "unknown
\* function" error
C11_PromptFunctionsExecuted ==
  (turn.phase = "FORMATTING" /\ turn.call.function \in PromptFunctions)
  => turn.result.error # "Unknown function: " \o turn.call.function
\* C12: in both chat services, when a request to the model fails in a turn, chat
\* returns a diagnostic text without raising and the conversation history after the
\* turn equals the history before it.
C12_FailedTurnLeavesHistory ==
  /\ (turn.phase = "terminal" /\ turn.kind = "error")
       => (turn.answer # "" /\ history = turn.history_before)
  /\ (chat1.phase = "terminal" /\ chat1.kind = "error" /\ chat1.requests # << >>)
       => (chat1.answer # "" /\ chat1.conversation_history = chat1.before)
\* C13: when the marker names a function that is not known, or the execution of a
\* known function raises, the executor yields an error payload, the payload is the
\* function result of the formatting request, and the turn ends with a text: no
\* exception of the execution ends the turn.
C13_ErrorPayloadFedBack ==
  LET unknown == turn.call.found /\ turn.call.function \notin KnownFunctions
      payload == Message("user", "Function result: " \o json_dumps(turn.result))
  IN  (unknown \/ turn.inner # "")
      => /\ turn.phase \in {"FORMATTING", "terminal"}
         /\ turn.result.kind = "error"
         /\ ~turn.result.success
         /\ turn.result.error # ""
         /\ Len(turn.requests) = 2
         /\ turn.requests[2][Len(turn.requests[2])] = payload
         /\ turn.phase = "terminal" => turn.answer # ""
         /\ (turn.phase = "terminal" /\ turn.kind # "function_executed")
              => Len(turn.trace) = 4

\* a known function has raised, its error payload was sent and the turn has ended
\* with the text of the model
C13_Witness ==
  /\ turn.phase = "terminal"
  /\ turn.kind = "function_executed"
  /\ turn.call.function = "create_task"
  /\ turn.inner = "IntegrityError"
  /\ turn.result = ErrorResult("IntegrityError")
\* C14: after any sequence of turns the stored conversation history of either chat
\* service holds at most the fixed maximum of messages (6), and what is kept after a
\* turn are the newest messages: the last ones of the history before the turn
\* followed by the two messages of the turn.
C14_HistoryBounded ==
  /\ Len(chat1.conversation_history) <= HistoryMax
  /\ Len(history) <= HistoryMax
  /\ (chat1.phase = "terminal" /\ chat1.kind = "ai_response")
       => chat1.conversation_history
            = keep_last(chat1.before
                        \o << Message("user", enhanced_message(chat1.message,
                                                                chat1.context)),
                              Message("assistant", chat1.answer) >>)
\* the last messages of h, in their order
Suffixes(h) == {SubSeq(h, k, Len(h)) : k \in 1..(Len(h) + 1)}

\* C15: in every turn the first request to the model is the system prompt, then the
\* bounded conversation history in chronological order, then the current user
\* message, once and last.
C15_FirstRequestShape ==
  /\ turn.requests # << >>
       => turn.requests[1]
            = << Message("system", system_prompt(turn.context)) >>
              \o LastFour(turn.history_before)
              \o << Message("user", turn.message) >>
  /\ chat1.requests # << >>
       => \E kept \in Suffixes(chat1.before) :
            chat1.requests[1]
              = << Message("system", system_prompt1) >> \o kept
                \o << Message("user", enhanced_message(chat1.message, chat1.context)) >>
\* C16: for every message sent from the assistant page the pattern matcher runs
\* first: if a static pattern matches, the result of the registry is returned with
\* no request to the model; only if none matches is the model asked, with at most
\* one pair of requests.
C16_PatternPathFirst ==
  turn.phase # "idle"
  => IF intents[turn.message].family # "none"
     THEN turn.requests = << >> /\ turn.executed = << >>
     ELSE Len(turn.requests) <= 2 /\ Len(turn.executed) <= 1
\* the texts that tell the model that there are no tasks
NoTasksMarkers == {"Tasks: None yet", "NO TASKS EXIST YET"}

\* C17: whenever the context handed to a chat service has zero tasks, the text built
\* for the model (the system prompt of OllamaChatServiceV2, the enhanced message of
\* OllamaChatService) holds an explicit no-tasks marker, and its task part holds no
\* title of a task.
C17_NoTasksMarker ==
  (last.op = "build_texts" /\ last.context.truthy /\ Len(last.context.all_tasks) = 0)
  => /\ \E marker \in NoTasksMarkers : Contains(last.prompt, marker)
     /\ \E marker \in NoTasksMarkers : Contains(last.message, marker)
     /\ \A t \in tasks :
          /\ ~Contains(app_state_tasks(last.context), t.title)
          /\ ~Contains(context_info_tasks(last.context), t.title)
\* the tasks of the user of the last operation that are in a status
InStatus(status) == {t \in tasks : t.user_id = last.user /\ t.status = status}

\* C18: every count by status that the action layer reports equals the number of
\* the user's tasks in that status: each by_status bucket of the snapshot holds the
\* tasks of its status, the bucket sizes sum to tasks.total, and the To Do,
\* In Progress, Done and Blocked counts of get_stats are the sizes of those classes.
C18_CountsByStatus ==
  last.op = "report_counts"
  => /\ \A k \in ByStatusKeys :
          /\ Len(last.context.by_status[k]) = Cardinality(InStatus(k))
          /\ \A i \in 1..Len(last.context.by_status[k]) :
               Upper(last.context.by_status[k][i].status) = k
     /\ Len(last.context.by_status["TODO"]) + Len(last.context.by_status["IN_PROGRESS"])
        + Len(last.context.by_status["DONE"]) + Len(last.context.by_status["BLOCKED"])
        = last.context.total
     /\ last.stats.todo = Cardinality(InStatus("TODO"))
     /\ last.stats.in_progress = Cardinality(InStatus("IN_PROGRESS"))
     /\ last.stats.done = Cardinality(InStatus("DONE"))
     /\ last.stats.blocked = Cardinality(InStatus("BLOCKED"))
\* C19: for every credential dictionary x, decrypt_credentials(encrypt_credentials(x))
\* = x, and for every ciphertext c the vault has produced,
\* encrypt_credentials(decrypt_credentials(c)) = c.
C19_RoundTrip ==
  /\ vault.op # "init" => vault.raised = ""
  /\ vault.op \in {"decrypted", "encrypted again", "decrypted again"}
       => vault.y = vault.x
  /\ vault.op \in {"encrypted again", "decrypted again"} => vault.c2 = vault.c

RECURSIVE IsJson(_)
\* the values that JSON represents: str, int, bool, None, and lists and dictionaries
\* with str keys of such values
IsJson(v) ==
  /\ v.t \in {"str", "int", "bool", "none", "list", "dict", "item"}
  /\ \A i \in 1..Len(v.items) : IsJson(v.items[i])

\* C19 amended: for every JSON-representable credential dictionary x,
\* decrypt_credentials(encrypt_credentials(x)) = x; and for every ciphertext c the
\* vault has produced, encrypt_credentials(decrypt_credentials(c)) is a ciphertext
\* that decrypts to the same dictionary as c.
C19_RoundTripOfJson ==
  /\ (vault.op # "init" /\ IsJson(vault.x)) => vault.raised = ""
  /\ (vault.op \in {"decrypted", "encrypted again", "decrypted again"}
       /\ IsJson(vault.x))
       => vault.y = vault.x
  /\ vault.op = "decrypted again" => vault.y2 = vault.y

\* a nested dictionary has gone through the vault twice, under two different tokens
C19_Witness ==
  /\ vault.op = "decrypted again"
  /\ \E i \in 1..Len(vault.x.items) :
       /\ vault.x.items[i].items[1].t = "dict"
       /\ Len(vault.x.items[i].items[1].items) > 0
  /\ vault.c2 # vault.c
  /\ vault.y = vault.x
  /\ vault.y2 = vault.x
(***************************************************************************)
(* C20: when the user has no GitHub integration configured (no GitHub      *)
(* integration in status active or error whose credentials hold a token,   *)
(* and no token in the environment), a GitHub question gets a              *)
(* configuration-required message and no request is sent to the GitHub     *)
(* API: on the pattern path the handler answers with the message, on the   *)
(* function-call path the function result is the not-configured payload    *)
(* and it is what the formatting request carries.                          *)
(***************************************************************************)
\* the stored credentials of the row hold a token
HoldsToken(i) ==
  /\ i.has_credential
  /\ LET creds == i.credentials
     IN  Truthy(dict_get(creds, "access_token")) \/ Truthy(dict_get(creds, "token"))

GitHubConfigured(user_id) ==
  \/ \E i \in integrations :
       /\ i.created_by = user_id
       /\ i.type = "github"
       /\ i.status \in {"ACTIVE", "ERROR"}
       /\ HoldsToken(i)
  \/ environ.GITHUB_TOKEN \notin {None, ""}

PatternPathAsked ==
  last.op = "detect" /\ last.user = "alice" /\ last.intent.family = "github_query"

FunctionPathAsked ==
  turn.phase = "FORMATTING" /\ turn.call.function \in GitHubFunctions

C20_NotConfiguredNoRequest ==
  ~GitHubConfigured("alice") =>
    /\ PatternPathAsked =>
         /\ last.raised = ""
         /\ last.detected
         /\ last.message = NotConfiguredText
         /\ last.api_requests = 0
    /\ FunctionPathAsked =>
         /\ turn.result.kind = "not_configured"
         /\ ~turn.result.success
         /\ turn.result.error = "GitHub integration not configured"
         /\ turn.api_requests = 0
         /\ turn.requests[2][Len(turn.requests[2])].content
              = "Function result: " \o json_dumps(turn.result)

\* "show PRs for facebook/react" has been asked on both paths while a GitHub
\* integration without a usable token is all that is stored
C20_Witness ==
  /\ ~GitHubConfigured("alice")
  /\ \E i \in integrations : i.type = "github" /\ i.status = "ACTIVE"
  /\ PatternPathAsked
  /\ last.text = "show PRs for facebook/react"
  /\ FunctionPathAsked
  /\ turn.message = "show PRs for facebook/react"
  /\ turn.call.function = "list_pull_requests"
(***************************************************************************)
(* C21: the pattern matcher is deterministic.  The rule family, the        *)
(* extracted parameters (title, priority, identifier, status), the action  *)
(* and the task it is aimed at are a function of the input text and of the *)
(* stored task set alone: whatever turns came before, a run on the same    *)
(* text and task set gives the same match.                                 *)
(***************************************************************************)
\* the action and the task selected for a text on a task set of a user
MatchOf(text, T, user_id) ==
  LET intent == match(text)
      hits == {t \in T : t.user_id = user_id
                          /\ (t.id = intent.identifier
                              \/ Lower(t.title) = intent.identifier)}
      aimed == intent.family \in {"delete", "status"}
  IN  [intent |-> intent,
       found |-> aimed /\ hits # {},
       action |-> CASE intent.family = "create" /\ intent.title # "" -> "create_task"
                    [] intent.family = "create" -> ""
                    [] intent.family = "delete" ->
                         IF hits # {} THEN "delete_task" ELSE ""
                    [] intent.family = "status" ->
                         IF hits # {} THEN "update_task" ELSE ""
                    [] intent.family = "none" -> ""
                    [] OTHER -> intent.family]

C22_VendorCallCompletes ==
  (inflight.state = "sent")
    ~> (inflight.state = "none" /\ last.op = "detect" /\ ~Falsy(last.message))
\* C23: for a chat delete or status command, the listing of the tasks and the
\* mutation of the matched task are one transaction: between the two no other
\* writer commits, so the stored tasks do not change while a command has listed
\* them and has not yet called its mutation.
C23_NoCommitBetween ==
  [][command.phase = "listed" /\ command'.phase = "listed" => tasks' = tasks]_vars
\* C24: after any sequence of task creations, task updates (task page, action
\* layer) and Jira syncs, every task whose status is DONE has a completion
\* timestamp.
C24_DoneHasCompletedAt ==
  \A t \in tasks : t.status = "DONE" => t.completed_at # 0
\* C25: a status change made through the action layer (a chat status command, or
\* execute_action('update_task') with only task_id and status) leaves the title,
\* the description, the priority and the owner of every task as they were.
OnlyTaskIdAndStatus(params) ==
  \A key \in DOMAIN params : Has(params, key) <=> key \in {"task_id", "status"}

StatusChanged ==
  \/ last.op = "detect" /\ last.handlers = << "update_task" >>
  \/ last.op = "execute" /\ last.action = "update_task"
       /\ OnlyTaskIdAndStatus(last.params)

C25_StatusChangeFrame ==
  StatusChanged
    => \A t \in last.before : \A u \in tasks :
         u.id = t.id => /\ u.title = t.title
                        /\ u.description = t.description
                        /\ u.priority = t.priority
                        /\ u.user_id = t.user_id
\* C26: whenever the action layer reports failure (execute_action returns
\* success = False, or detect_and_execute_action raises) or a chat service returns
\* an error outcome, no task mutation of that turn is persisted: the stored tasks
\* are the ones before the turn.
C26_FailurePersistsNothing ==
  /\ (last.op = "execute" /\ ~last.success) => tasks = last.before
  /\ (last.op = "detect" /\ last.raised # "") => tasks = last.before
  /\ (turn.phase = "terminal" /\ turn.kind = "error") => tasks = turn.before
\* C27: execute_action('update_task' | 'delete_task' | 'get_task_details') of the
\* handler of one user with the id of a task of another user returns the 'not
\* found or access denied' failure and leaves that task as it was.
ForeignTaskOf(o) ==
  {t \in o.before : t.id = o.params["task_id"] /\ t.user_id # o.user}

AccessDenied ==
  {"Failed to update task. Task not found or access denied.",
   "Failed to delete task. Task not found or access denied.",
   "Task not found"}

C27_ForeignTaskUntouched ==
  (/\ last.op = "execute"
   /\ last.action \in {"update_task", "delete_task", "get_task_details"}
   /\ ForeignTaskOf(last) # {})
    => /\ ~last.success
       /\ last.message \in AccessDenied
       /\ ForeignTaskOf(last) \subseteq tasks
\* C28: conversation history is kept per session: a request of a turn made with
\* one user_id holds no message that was typed in a turn made with another
\* user_id earlier in the same process.
TypedByOther(user_id) == {SessionMessages[other] : other \in Users \ {user_id}}

C28_HistoryPerSession ==
  turn.user \in Users
    => \A i \in 1..Len(turn.requests) : \A j \in 1..Len(turn.requests[i]) :
         turn.requests[i][j].content \notin TypedByOther(turn.user)
\* C29: for 'delete task id: <ID>' and 'delete task with id <ID>', where <ID> is the
\* id of a task of the user, the identifier resolved against the tasks is <ID> and
\* the task with that id is the one selected for deletion.
C29_DeleteByIdSelectsId ==
  \A t \in last.before :
    (/\ last.op = "detect"
     /\ last.text \in DeleteById(t.id)
     /\ t.user_id = last.user)
      => /\ last.intent.identifier = t.id
         /\ last.target = t.id
\* C30: a Jira sync changes the status of an existing task only if the task was
\* not manually completed: a Jira-sourced task that the user has just set to DONE
\* (check box of the task page, or status command of the chat) has the status DONE
\* after the sync that follows, whatever status Jira reports.
ManuallyDone(t) ==
  /\ t.source = "JIRA"
  /\ t.status = "DONE"
  /\ last.op \in {"toggle_task_status", "detect"}
  /\ last.target = t.id
  /\ \E b \in last.before : b.id = t.id /\ b.status # "DONE"

C30_ManualDoneSurvivesSync ==
  [][\A t \in tasks :
       (ManuallyDone(t) /\ last'.op = "sync_from_jira")
         => \E u \in tasks' : u.id = t.id /\ u.status = "DONE"]_vars
=============================================================================
